---- MODULE Spec2Model ----
(***************************************************************************)
(* Model of the nRFCalc expression evaluator                               *)
(* (src/src/math/expression_evaluator.c): tokenizer, shunting-yard         *)
(* converter and postfix evaluator, one action per loop iteration.         *)
(*                                                                         *)
(* Numbers.  A C double is modelled by an exact value                      *)
(*     [k |-> "rat", n, d, e]   the rational (n/d) * 10^e in lowest terms, *)
(*                              n and d free of factors of ten,            *)
(*     [k |-> "big", s, limbs]  an integer of sign s too long for "rat",   *)
(*                              little-endian limbs to the base LimbBase,  *)
(*     [k |-> "inf", s], [k |-> "nan"]   the non-finite doubles,           *)
(*     [k |-> "sym", name]      the double nearest an irrational constant, *)
(*     [k |-> "angle", n, d]    the double nearest (n/d) * pi, n # d,      *)
(* and [k |-> "oor"] stands for a finite double the model does not track   *)
(* (an irrational result, or one outside the exact range): a step that     *)
(* would produce it is not taken.  Rounding and signed zeros are not       *)
(* modelled.                                                               *)
(***************************************************************************)
EXTENDS Integers, Sequences, FiniteSets, TLC

\* ------------------------------------------------------------------ bounds
\* largest numerator and denominator a "rat" value may have
ExactMax == 30000
\* operands of the generated expressions are 0..MaxOperand
MaxOperand == 3
\* the sums of the generated long expressions have up to MaxTerms terms
MaxTerms == 64
\* the generated factorial expressions are 0! .. MaxFact!
MaxFact == 172
\* strtod: an exponent beyond +-ExpCap is read as +-ExpCap
ExpCap == 1000
\* the generated deep expressions have up to MaxDepth pairs of characters
MaxDepth == 66

\* ------------------------------------------------------- program constants
MAX_TOKENS == 64
ERR_SYNTAX_ERROR == -1
ERR_DIVISION_BY_ZERO == -2
ERR_DOMAIN_ERROR == -3
ERR_OVERFLOW == -4
ERR_STACK_OVERFLOW == -5
ERR_UNKNOWN_FUNCTION == -6
ERR_MISMATCHED_PARENS == -7

\* ----------------------------------------------------------------- numbers
LimbBase == 1000 * 1000
\* the largest factor a limb sequence is multiplied by in one pass
MulMax == 2147483647 \div LimbBase
\* a double overflows to infinity from 2^1024 on, a number of 309 digits
\* that begins 179769313...: 52 limbs, the top one 179, the next 769313
DblMax == [limbs |-> 52, top |-> 179, next |-> 769313]
DblMaxLimbs == DblMax.limbs
DblMaxTop == DblMax.top
DblMaxNext == DblMax.next

Abs(x) == IF x < 0 THEN -x ELSE x
Sign(x) == IF x < 0 THEN -1 ELSE 1

RECURSIVE GCD(_, _)
GCD(a, b) == IF b = 0 THEN a ELSE GCD(b, a % b)

\* the number of factors of ten of x > 0
RECURSIVE Tens(_)
Tens(x) == IF x % 10 = 0 THEN 1 + Tens(x \div 10) ELSE 0

\* 10^k for 0 <= k <= 9
RECURSIVE Pow10(_)
Pow10(k) == IF k = 0 THEN 1 ELSE 10 * Pow10(k - 1)

\* the number of decimal digits of x > 0
RECURSIVE NumDigits(_)
NumDigits(x) == IF x < 10 THEN 1 ELSE 1 + NumDigits(x \div 10)

\* floor(log10(n / d)) for 1 <= n, d <= ExactMax
FloorLog10(n, d) ==
    LET k == NumDigits(n) - NumDigits(d)
    IN  IF k >= 0 THEN (IF n >= d * Pow10(k) THEN k ELSE k - 1)
        ELSE (IF n * Pow10(-k) >= d THEN k ELSE k - 1)

NaN == [k |-> "nan"]
Inf(s) == [k |-> "inf", s |-> s]
OOR == [k |-> "oor"]
Zero == [k |-> "rat", n |-> 0, d |-> 1, e |-> 0]

\* The double holding (n/d) * 10^e, for d > 0 and |n|, d < 2^31: infinite
\* from 1e309 on, zero below 1e-324, untracked next to the ends of the
\* double range or when the reduced numerator or denominator exceeds
\* ExactMax.
Norm(n, d, e) ==
    IF n = 0 THEN Zero
    ELSE LET g == GCD(Abs(n), d)
             n1 == Abs(n) \div g
             d1 == d \div g
             tn == Tens(n1)
             td == Tens(d1)
             n2 == n1 \div Pow10(tn)
             d2 == d1 \div Pow10(td)
             e2 == e + tn - td
         IN  IF n2 > ExactMax \/ d2 > ExactMax THEN OOR
             ELSE LET fl == e2 + FloorLog10(n2, d2)
                  IN  IF fl >= 309 THEN Inf(Sign(n))
                      ELSE IF fl <= -325 THEN Zero
                      ELSE IF fl >= 308 \/ fl <= -308 THEN OOR
                      ELSE [k |-> "rat", n |-> Sign(n) * n2, d |-> d2,
                            e |-> e2]

Num(i) == Norm(i, 1, 0)

IsRat(v) == v.k = "rat"
\* a test that lets NaN pass: only the infinities are not finite
isfinite_or_nan(v) == v.k # "inf"
\* isfinite(): true of every double but the infinities and NaN
isfinite(v) == v.k \in {"rat", "big", "sym", "angle"}

\* v is an integer of magnitude at most ExactMax, and IntOf(v) is it
IsSmallInt(v) ==
    /\ v.k = "rat"
    /\ v.d = 1
    /\ v.e >= 0
    /\ v.e <= 4
    /\ Abs(v.n) * Pow10(v.e) <= ExactMax
IntOf(v) == v.n * Pow10(v.e)

\* v == floor(v): v has no fractional part
IsInteger(v) == v.k = "big" \/ (v.k = "rat" /\ v.d = 1 /\ v.e >= 0)

\* -------------------------------------------------------- long integers
\* limbs * m + carry for 0 <= m <= MulMax, by halves: the low limbs of the
\* product and the carry out of them
RECURSIVE MulSeg(_, _, _)
MulSeg(limbs, m, carry) ==
    IF Len(limbs) = 0 THEN [out |-> <<>>, carry |-> carry]
    ELSE IF Len(limbs) = 1
    THEN LET t == limbs[1] * m + carry
         IN  [out |-> <<t % LimbBase>>, carry |-> t \div LimbBase]
    ELSE LET h == Len(limbs) \div 2
             lo == MulSeg(SubSeq(limbs, 1, h), m, carry)
             hi == MulSeg(SubSeq(limbs, h + 1, Len(limbs)), m, lo.carry)
         IN  [out |-> lo.out \o hi.out, carry |-> hi.carry]

MulLimbs(limbs, m) ==
    LET r == MulSeg(limbs, m, 0)
    IN  IF r.carry = 0 THEN r.out ELSE r.out \o <<r.carry>>

\* the double holding the integer s * limbs (limbs without leading zeros)
OfLimbs(s, limbs) ==
    LET n == Len(limbs)
        small == IF n = 1 THEN Norm(s * limbs[1], 1, 0) ELSE OOR
    IN  IF small # OOR THEN small
        ELSE IF n < DblMaxLimbs THEN [k |-> "big", s |-> s, limbs |-> limbs]
        ELSE IF n > DblMaxLimbs \/ limbs[n] > DblMaxTop THEN Inf(s)
        ELSE IF limbs[n] < DblMaxTop
             THEN [k |-> "big", s |-> s, limbs |-> limbs]
        ELSE IF limbs[n - 1] > DblMaxNext THEN Inf(s)
        ELSE IF limbs[n - 1] < DblMaxNext
             THEN [k |-> "big", s |-> s, limbs |-> limbs]
        ELSE OOR

\* limbs * m^count for 1 <= m <= MulMax, by halves; a product already
\* beyond the double range is left as it is
RECURSIVE MulRepeat(_, _, _)
MulRepeat(limbs, m, count) ==
    IF count = 0 \/ Len(limbs) > DblMaxLimbs THEN limbs
    ELSE IF count = 1 THEN MulLimbs(limbs, m)
    ELSE MulRepeat(MulRepeat(limbs, m, count \div 2), m,
                   count - count \div 2)

\* the largest j >= 1 with m^j <= MulMax, counting up from acc = m^j
RECURSIVE Chunk(_, _, _)
Chunk(acc, m, j) ==
    IF acc * m <= MulMax THEN Chunk(acc * m, m, j + 1) ELSE j

RECURSIVE IntPow(_, _)
IntPow(m, j) == IF j = 0 THEN 1 ELSE m * IntPow(m, j - 1)

\* the limbs of m^b for 2 <= m <= MulMax, several factors m at a time
PowLimbs(m, b) ==
    LET j == Chunk(m, m, 1)
    IN  MulRepeat(MulRepeat(<<1>>, IntPow(m, j), b \div j), IntPow(m, b % j), 1)

\* limbs * lo * (lo + 1) * ... * hi, multiplied in from lo upwards
RECURSIVE MulRange(_, _, _)
MulRange(limbs, lo, hi) ==
    IF lo > hi \/ Len(limbs) = 0 THEN limbs
    ELSE IF lo = hi THEN MulLimbs(limbs, lo)
    ELSE LET mid == (lo + hi) \div 2
         IN  MulRange(MulRange(limbs, lo, mid), mid + 1, hi)

\* ------------------------------------------------------------ arithmetic
\* -v
Neg(v) ==
    CASE v.k = "rat" -> [v EXCEPT !.n = -v.n]
      [] v.k = "big" -> [v EXCEPT !.s = -v.s]
      [] v.k = "inf" -> [v EXCEPT !.s = -v.s]
      [] v.k = "nan" -> v
      [] v.k = "angle" -> [v EXCEPT !.n = -v.n]
      [] OTHER -> OOR

\* a + b of two "rat" values
AddRat(a, b) ==
    LET hiv == IF a.e >= b.e THEN a ELSE b
        lov == IF a.e >= b.e THEN b ELSE a
        gap == hiv.e - lov.e
    IN  IF hiv.n = 0 THEN lov
        ELSE IF lov.n = 0 THEN hiv
        ELSE IF gap > 4 \/ Abs(hiv.n) * Pow10(gap) > ExactMax THEN OOR
        ELSE Norm(hiv.n * Pow10(gap) * lov.d + lov.n * hiv.d,
                  hiv.d * lov.d, lov.e)

MulRat(a, b) == Norm(a.n * b.n, a.d * b.d, a.e + b.e)

\* a / b of two "rat" values, b # 0
DivRat(a, b) == Norm(Sign(b.n) * a.n * b.d, a.d * Abs(b.n), a.e - b.e)

\* a division check that knows only the exact zero: v == 0.0
ExactlyZero(v) == v = Zero

\* fabs(v) < 1e-15, for a "rat" value
BelowEps(v) ==
    /\ v.k = "rat"
    /\ \/ v.n = 0
       \/ LET lo == v.e + NumDigits(Abs(v.n)) - 1 - NumDigits(v.d)
              hi == v.e + NumDigits(Abs(v.n)) - NumDigits(v.d) + 1
              s == v.e + 15
          IN  IF hi <= -15 THEN TRUE
              ELSE IF lo >= -15 THEN FALSE
              ELSE IF s >= 0 THEN Abs(v.n) * Pow10(s) < v.d
              ELSE Abs(v.n) < v.d * Pow10(-s)

\* acc * x^p, or 0 once that exceeds ExactMax (acc, x >= 1)
RECURSIVE SmallPow(_, _, _)
SmallPow(acc, x, p) ==
    IF p = 0 \/ x = 1 THEN acc
    ELSE IF acc * x > ExactMax THEN 0
    ELSE SmallPow(acc * x, x, p - 1)

\* pow(a, b) of two "rat" values, as C99 defines it
PowRat(a, b) ==
    IF b.n = 0 THEN Num(1)
    ELSE IF a.n = 0 THEN (IF b.n > 0 THEN Zero ELSE Inf(1))
    ELSE IF ~IsInteger(b) THEN (IF a.n < 0 THEN NaN ELSE OOR)
    ELSE IF a.d = 1 /\ a.e = 0 /\ Abs(a.n) = 1
         THEN (IF a.n = 1 \/ b.e > 0 \/ b.n % 2 = 0 THEN Num(1) ELSE Num(-1))
    ELSE IF ~IsSmallInt(b) THEN OOR
    ELSE LET p == Abs(IntOf(b))
             s == IF a.n < 0 /\ p % 2 = 1 THEN -1 ELSE 1
             np == SmallPow(1, Abs(a.n), p)
             dp == SmallPow(1, a.d, p)
         IN  IF np # 0 /\ dp # 0
             THEN (IF b.n > 0 THEN Norm(s * np, dp, a.e * p)
                               ELSE Norm(s * dp, np, -(a.e * p)))
             ELSE IF a.d = 1 /\ a.e = 0 /\ b.n > 0 /\ Abs(a.n) <= MulMax
             THEN OfLimbs(s, PowLimbs(Abs(a.n), p))
             ELSE OOR

\* a + b, a - b, a * b, a / b and pow(a, b) on doubles; an operand that is
\* not a "rat" value gives an untracked result
Arith(op, a, b) ==
    IF a.k # "rat" \/ b.k # "rat" THEN OOR
    ELSE CASE op = "+" -> AddRat(a, b)
           [] op = "-" -> AddRat(a, Neg(b))
           [] op = "*" -> MulRat(a, b)
           [] op = "/" -> DivRat(a, b)
           [] op = "^" -> PowRat(a, b)

\* ------------------------------------------------------------- characters
\* An expression is a sequence of characters, each a one-character string;
\* the two-byte glyphs of the pattern tables are the characters "PI"
\* (the pi glyph), "SUPMINUS" and "SUP1" (superscript minus and one).
NUL == "NUL"
DigitChars == <<"0", "1", "2", "3", "4", "5", "6", "7", "8", "9">>
HexChars == <<"0", "1", "2", "3", "4", "5", "6", "7", "8", "9",
              "a", "b", "c", "d", "e", "f">>
UpperHexChars == <<"0", "1", "2", "3", "4", "5", "6", "7", "8", "9",
                   "A", "B", "C", "D", "E", "F">>

Range(f) == {f[x] : x \in DOMAIN f}
IndexOf(seq, c) == CHOOSE x \in DOMAIN seq : seq[x] = c

\* the element of a one-element set: {F(v) : v \in {x}} names the value x
\* once for all its uses in F
The(S) == CHOOSE v \in S : TRUE

\* the character classes of <ctype.h>
Digits == Range(DigitChars)
HexDigits == Range(HexChars) \cup Range(UpperHexChars)
Spaces == {" ", "\t", "\n", "\r", "\f"}
isdigit(c) == c \in Digits
isxdigit(c) == c \in HexDigits
isspace(c) == c \in Spaces
DigitVal(c) == IndexOf(DigitChars, c) - 1
HexVal(c) == IF c \in Range(HexChars) THEN IndexOf(HexChars, c) - 1
             ELSE IndexOf(UpperHexChars, c) - 1

\* expr[pos] of the C string: positions count from 0, and the byte after
\* the last character is the terminating NUL
CharAt(expr, pos) == IF pos < Len(expr) THEN expr[pos + 1] ELSE NUL

\* the first position from pos on whose character is not in the class
ScanWhile(expr, pos, class) ==
    LET stops == {q \in pos..Len(expr) : CharAt(expr, q) \notin class}
    IN  CHOOSE q \in stops : \A r \in stops : q <= r

skip_whitespace(expr, pos) == ScanWhile(expr, pos, Spaces)

\* strncmp(&expr[pos], pattern, strlen(pattern)) == 0
StartsWith(expr, pos, pattern) ==
    \A x \in 1..Len(pattern) : CharAt(expr, pos + x - 1) = pattern[x]

\* --------------------------------------------------------------- strtod
\* the value of the digits expr[from..to-1] to the base, or -1 once it
\* exceeds cap
RECURSIVE DigitsValue(_, _, _, _, _, _)
DigitsValue(expr, from, to, base, cap, acc) ==
    IF from >= to THEN acc
    ELSE IF CharAt(expr, from) = "." 
         THEN DigitsValue(expr, from + 1, to, base, cap, acc)
    ELSE LET v == acc * base + HexVal(CharAt(expr, from))
         IN  IF v > cap THEN -1
             ELSE DigitsValue(expr, from + 1, to, base, cap, v)

\* the mantissa of [digits][.digits] at pos: where it ends, how many
\* digits it has, and how many of them follow the point
Mantissa(expr, pos, class) ==
    LET intEnd == ScanWhile(expr, pos, class)
        dot == CharAt(expr, intEnd) = "."
        fracEnd == IF dot THEN ScanWhile(expr, intEnd + 1, class) ELSE intEnd
        frac == IF dot THEN fracEnd - intEnd - 1 ELSE 0
    IN  [end |-> fracEnd, digits |-> (intEnd - pos) + frac, frac |-> frac]

\* the exponent [+-]digits after the exponent letter at pos - 1: where it
\* ends (pos - 1 when there is none) and its value, cut off at +-ExpCap
Exponent(expr, pos) ==
    LET signed == CharAt(expr, pos) \in {"+", "-"}
        from == IF signed THEN pos + 1 ELSE pos
        to == ScanWhile(expr, from, Digits)
        mag == DigitsValue(expr, from, to, 10, ExpCap, 0)
        val == IF mag < 0 THEN ExpCap ELSE mag
    IN  IF to = from THEN [end |-> pos - 1, val |-> 0]
        ELSE [end |-> to,
              val |-> IF CharAt(expr, pos) = "-" THEN -val ELSE val]

\* 2^k as a double-exact power, for 0 <= k <= 14
RECURSIVE Pow2(_)
Pow2(k) == IF k = 0 THEN 1 ELSE 2 * Pow2(k - 1)

\* strtod(&expr[pos], &endptr) at a digit or a point: the position of
\* endptr and the number; no conversion leaves endptr at pos.  Decimal
\* [digits][.digits][(e|E)[+-]digits] and hexadecimal
\* 0(x|X)[hexdigits][.hexdigits][(p|P)[+-]digits].
strtod_value(hex, mant, frac, exp) ==
    IF mant < 0 THEN OOR
    ELSE IF ~hex THEN Norm(mant, 1, exp - frac)
    ELSE IF mant = 0 THEN Zero
    ELSE IF exp - 4 * frac > 14 \/ exp - 4 * frac < -14 \/ mant > ExactMax
         THEN OOR
    ELSE IF exp - 4 * frac >= 0 THEN Norm(mant * Pow2(exp - 4 * frac), 1, 0)
    ELSE Norm(mant, Pow2(4 * frac - exp), 0)

strtod_tail(expr, pos, hex, m) ==
    LET ex == IF CharAt(expr, m.end) \in (IF hex THEN {"p", "P"} ELSE {"e", "E"})
              THEN Exponent(expr, m.end + 1)
              ELSE [end |-> m.end, val |-> 0]
        mant == DigitsValue(expr, IF hex THEN pos + 2 ELSE pos, m.end,
                            IF hex THEN 16 ELSE 10, ExactMax * 1000, 0)
    IN  IF m.digits = 0 THEN [pos |-> pos, number |-> Zero]
        ELSE The({[pos |-> e.end,
                   number |-> strtod_value(hex, v, m.frac, e.val)] :
                  e \in {ex}, v \in {mant}})

parse_number(expr, pos) ==
    LET hex == /\ CharAt(expr, pos) = "0"
               /\ CharAt(expr, pos + 1) \in {"x", "X"}
               /\ Mantissa(expr, pos + 2, HexDigits).digits > 0
    IN  The({The({strtod_tail(expr, pos, h, m) :
                  m \in {IF h THEN Mantissa(expr, pos + 2, HexDigits)
                                ELSE Mantissa(expr, pos, Digits)}}) :
             h \in {hex}})

\* ------------------------------------------------------------------ tokens
\* token_t: the type, and the member of the value union the type selects
\* (number for TOKEN_NUMBER, sym for the operator character, the function,
\* the constant or the variable); the other member is unset
NoNumber == [k |-> "unset"]
Token(type, number, sym) == [type |-> type, number |-> number, sym |-> sym]

function_patterns ==
    << [pattern |-> <<"s", "i", "n", "SUPMINUS", "SUP1">>, type |-> "FUNC_ASIN"],
       [pattern |-> <<"c", "o", "s", "SUPMINUS", "SUP1">>, type |-> "FUNC_ACOS"],
       [pattern |-> <<"t", "a", "n", "SUPMINUS", "SUP1">>, type |-> "FUNC_ATAN"],
       [pattern |-> <<"s", "i", "n">>, type |-> "FUNC_SIN"],
       [pattern |-> <<"c", "o", "s">>, type |-> "FUNC_COS"],
       [pattern |-> <<"t", "a", "n">>, type |-> "FUNC_TAN"],
       [pattern |-> <<"s", "i", "n", "h">>, type |-> "FUNC_SINH"],
       [pattern |-> <<"c", "o", "s", "h">>, type |-> "FUNC_COSH"],
       [pattern |-> <<"t", "a", "n", "h">>, type |-> "FUNC_TANH"],
       [pattern |-> <<"l", "o", "g">>, type |-> "FUNC_LOG"],
       [pattern |-> <<"l", "n">>, type |-> "FUNC_LN"],
       [pattern |-> <<"l", "o", "g", "1", "0">>, type |-> "FUNC_LOG10"],
       [pattern |-> <<"s", "q", "r", "t">>, type |-> "FUNC_SQRT"],
       [pattern |-> <<"a", "b", "s">>, type |-> "FUNC_ABS"],
       [pattern |-> <<"e", "x", "p">>, type |-> "FUNC_EXP"] >>

constant_patterns ==
    << [pattern |-> <<"PI">>, type |-> "CONST_PI"],
       [pattern |-> <<"p", "i">>, type |-> "CONST_PI"],
       [pattern |-> <<"e">>, type |-> "CONST_E"] >>

\* the table with the one-letter names first, "A" ahead of "Ans"
variable_patterns_by_letter ==
    << [pattern |-> <<"X">>, type |-> "VAR_X"],
       [pattern |-> <<"Y">>, type |-> "VAR_Y"],
       [pattern |-> <<"A">>, type |-> "VAR_A"],
       [pattern |-> <<"B">>, type |-> "VAR_B"],
       [pattern |-> <<"C">>, type |-> "VAR_C"],
       [pattern |-> <<"D">>, type |-> "VAR_D"],
       [pattern |-> <<"M">>, type |-> "VAR_M"],
       [pattern |-> <<"A", "n", "s">>, type |-> "VAR_ANS"] >>

variable_patterns ==
    << [pattern |-> <<"A", "n", "s">>, type |-> "VAR_ANS"],
       [pattern |-> <<"X">>, type |-> "VAR_X"],
       [pattern |-> <<"Y">>, type |-> "VAR_Y"],
       [pattern |-> <<"A">>, type |-> "VAR_A"],
       [pattern |-> <<"B">>, type |-> "VAR_B"],
       [pattern |-> <<"C">>, type |-> "VAR_C"],
       [pattern |-> <<"D">>, type |-> "VAR_D"],
       [pattern |-> <<"M">>, type |-> "VAR_M"] >>

\* the loop shared by parse_function, parse_constant and parse_variable:
\* the first pattern of the table that expr has at pos decides; the
\* position after it and its type, or position -1 when no pattern matches
FirstMatch(table, expr, pos) ==
    LET hits == {x \in DOMAIN table : StartsWith(expr, pos, table[x].pattern)}
        first == CHOOSE x \in hits : \A y \in hits : x <= y
    IN  IF hits = {} THEN [pos |-> -1, type |-> "none"]
        ELSE [pos |-> pos + Len(table[first].pattern),
              type |-> table[first].type]

parse_function(expr, pos) == FirstMatch(function_patterns, expr, pos)
parse_constant(expr, pos) == FirstMatch(constant_patterns, expr, pos)
parse_variable(expr, pos) == FirstMatch(variable_patterns, expr, pos)

\* one precedence for all five operators
flat_precedence(op) == IF op \in {"+", "-", "*", "/", "^"} THEN 1 ELSE 0

get_operator_precedence(op) ==
    CASE op \in {"+", "-"} -> 1
      [] op \in {"*", "/"} -> 2
      [] op = "^" -> 3
      [] OTHER -> 0

\* every operator left-associative
never_right_associative(op) == FALSE

is_right_associative(op) == op = "^"

\* ----------------------------------------------------------- tokenizer
\* One iteration of the loop of tokenize_expression at position pos with
\* the flag expect_number: err (0 or the error returned), brk (the loop is
\* left by break), the token stored (type "none": no token), the new
\* position and the new flag.
TokenizeResult(err, brk, token, pos, expect) ==
    [err |-> err, brk |-> brk, token |-> token, pos |-> pos, expect |-> expect]

NoToken == Token("none", NoNumber, "")

tokenize_step(expr, pos0, expect) ==
    LET pos == skip_whitespace(expr, pos0)
        ch == CharAt(expr, pos)
        num == parse_number(expr, pos)
        fn == parse_function(expr, pos)
        con == parse_constant(expr, pos)
        var == parse_variable(expr, pos)
    IN  IF pos >= Len(expr)
        THEN TokenizeResult(0, TRUE, NoToken, pos, expect)
        ELSE IF (isdigit(ch) \/ ch = ".") /\ num.pos > pos
        THEN TokenizeResult(0, FALSE, Token("TOKEN_NUMBER", num.number, ""),
                            num.pos, FALSE)
        ELSE IF fn.pos > 0
        THEN TokenizeResult(0, FALSE, Token("TOKEN_FUNCTION", NoNumber, fn.type),
                            fn.pos, TRUE)
        ELSE IF con.pos > 0
        THEN TokenizeResult(0, FALSE, Token("TOKEN_CONSTANT", NoNumber, con.type),
                            con.pos, FALSE)
        ELSE IF var.pos > 0
        THEN TokenizeResult(0, FALSE, Token("TOKEN_VARIABLE", NoNumber, var.type),
                            var.pos, FALSE)
        ELSE IF ch \in {"+", "*", "/", "^"}
        THEN (IF expect /\ ch # "-"
              THEN TokenizeResult(ERR_SYNTAX_ERROR, FALSE, NoToken, pos, expect)
              ELSE TokenizeResult(0, FALSE, Token("TOKEN_OPERATOR", NoNumber, ch),
                                  pos + 1, TRUE))
        ELSE IF ch = "-"
        THEN (IF expect
              THEN TokenizeResult(0, FALSE,
                                  Token("TOKEN_UNARY_MINUS", NoNumber, ""),
                                  pos + 1, TRUE)
              ELSE TokenizeResult(0, FALSE, Token("TOKEN_OPERATOR", NoNumber, ch),
                                  pos + 1, TRUE))
        ELSE IF ch = "("
        THEN TokenizeResult(0, FALSE, Token("TOKEN_LEFT_PAREN", NoNumber, ""),
                            pos + 1, TRUE)
        ELSE IF ch = ")"
        THEN (IF expect
              THEN TokenizeResult(ERR_SYNTAX_ERROR, FALSE, NoToken, pos, expect)
              ELSE TokenizeResult(0, FALSE,
                                  Token("TOKEN_RIGHT_PAREN", NoNumber, ""),
                                  pos + 1, FALSE))
        ELSE IF ch = "!"
        THEN (IF expect
              THEN TokenizeResult(ERR_SYNTAX_ERROR, FALSE, NoToken, pos, expect)
              ELSE TokenizeResult(0, FALSE,
                                  Token("TOKEN_FUNCTION", NoNumber,
                                        "FUNC_FACTORIAL"),
                                  pos + 1, FALSE))
        ELSE TokenizeResult(ERR_SYNTAX_ERROR, FALSE, NoToken, pos, expect)

\* ------------------------------------------------------------- converter
\* how many entries lie on the stack above the topmost of the entries
\* keepers, the positions of the entries a pop loop stops at
PopCount(stack, keepers) ==
    LET top == IF keepers = {} THEN 0
               ELSE CHOOSE j \in keepers : \A x \in keepers : x <= j
    IN  Len(stack) - top

\* the top count entries of the stack, the topmost first
Popped(stack, count) == [x \in 1..count |-> stack[Len(stack) + 1 - x]]

ShuntResult(err, stack, out) == [err |-> err, stack |-> stack, out |-> out]

\* a pop condition that lets only binary operators and functions go ahead
\* of the incoming operator, a unary minus staying on the stack
ShouldPopOperators(t, precedence, right_assoc) ==
    /\ t.type # "TOKEN_LEFT_PAREN"
    /\ \/ /\ t.type = "TOKEN_OPERATOR"
          /\ get_operator_precedence(t.sym) > precedence
       \/ /\ t.type = "TOKEN_OPERATOR"
          /\ get_operator_precedence(t.sym) = precedence
          /\ ~right_assoc
       \/ t.type = "TOKEN_FUNCTION"

\* a pop condition that leaves a function on the stack when an operator
\* comes in
ShouldPopNoFunction(t, precedence, right_assoc) ==
    /\ t.type # "TOKEN_LEFT_PAREN"
    /\ \/ /\ t.type = "TOKEN_OPERATOR"
          /\ get_operator_precedence(t.sym) > precedence
       \/ /\ t.type = "TOKEN_OPERATOR"
          /\ get_operator_precedence(t.sym) = precedence
          /\ ~right_assoc
       \/ t.type = "TOKEN_UNARY_MINUS"

\* the condition of the while loop "Pop operators with higher or equal
\* precedence" on the entry t on top of the operator stack
ShouldPop(t, precedence, right_assoc) ==
    /\ t.type # "TOKEN_LEFT_PAREN"
    /\ \/ /\ t.type = "TOKEN_OPERATOR"
          /\ get_operator_precedence(t.sym) > precedence
       \/ /\ t.type = "TOKEN_OPERATOR"
          /\ get_operator_precedence(t.sym) = precedence
          /\ ~right_assoc
       \/ t.type = "TOKEN_FUNCTION"
       \/ t.type = "TOKEN_UNARY_MINUS"

\* a right parenthesis that sends the function below the left parenthesis
\* to the output first and the operators of the group after it
shunting_right_paren_function_first(stack, out) ==
    LET Failed(err) == ShuntResult(err, stack, out)
        NotLeft(t) == t.type # "TOKEN_LEFT_PAREN"
        count == PopCount(stack, {j \in DOMAIN stack : ~NotLeft(stack[j])})
        rest == SubSeq(stack, 1, Len(stack) - count - 1)
    IN  IF Len(out) + count > MAX_TOKENS THEN Failed(ERR_STACK_OVERFLOW)
        ELSE IF count = Len(stack) THEN Failed(ERR_MISMATCHED_PARENS)
        ELSE IF Len(rest) > 0 /\ rest[Len(rest)].type = "TOKEN_FUNCTION"
        THEN (IF Len(out) + count >= MAX_TOKENS THEN Failed(ERR_STACK_OVERFLOW)
              ELSE ShuntResult(0, SubSeq(rest, 1, Len(rest) - 1),
                               Append(out, rest[Len(rest)])
                                  \o Popped(stack, count)))
        ELSE ShuntResult(0, rest, out \o Popped(stack, count))

\* The case TOKEN_RIGHT_PAREN of the loop of parse_expression_to_rpn: the
\* entries above the topmost left parenthesis go to the output, the
\* parenthesis is dropped, and a function below it goes to the output too.
shunting_right_paren(stack, out) ==
    LET Failed(err) == ShuntResult(err, stack, out)
        NotLeft(t) == t.type # "TOKEN_LEFT_PAREN"
        count == PopCount(stack, {j \in DOMAIN stack : ~NotLeft(stack[j])})
        out1 == out \o Popped(stack, count)
        \* the stack below the left parenthesis
        rest == SubSeq(stack, 1, Len(stack) - count - 1)
    IN  IF Len(out) + count > MAX_TOKENS THEN Failed(ERR_STACK_OVERFLOW)
        ELSE IF count = Len(stack) THEN Failed(ERR_MISMATCHED_PARENS)
        ELSE IF Len(rest) > 0 /\ rest[Len(rest)].type = "TOKEN_FUNCTION"
        THEN (IF Len(out1) >= MAX_TOKENS THEN Failed(ERR_STACK_OVERFLOW)
              ELSE ShuntResult(0, SubSeq(rest, 1, Len(rest) - 1),
                               Append(out1, rest[Len(rest)])))
        ELSE ShuntResult(0, rest, out1)

\* One iteration of the shunting-yard loop of parse_expression_to_rpn: the
\* operator stack (stack_top = Len(stack) - 1) and the output queue
\* (count = Len(out)) after the token, or the error returned.
shunting_step(token, stack, out) ==
    LET Failed(err) == ShuntResult(err, stack, out)
    IN
    CASE token.type \in {"TOKEN_NUMBER", "TOKEN_CONSTANT", "TOKEN_VARIABLE"} ->
            IF Len(out) >= MAX_TOKENS THEN Failed(ERR_STACK_OVERFLOW)
            ELSE ShuntResult(0, stack, Append(out, token))
      [] token.type \in {"TOKEN_FUNCTION", "TOKEN_LEFT_PAREN"} ->
            IF Len(stack) - 1 >= MAX_TOKENS - 1 THEN Failed(ERR_STACK_OVERFLOW)
            ELSE ShuntResult(0, Append(stack, token), out)
      [] token.type \in {"TOKEN_OPERATOR", "TOKEN_UNARY_MINUS"} ->
            LET op == IF token.type = "TOKEN_UNARY_MINUS" THEN "-" ELSE token.sym
                precedence == get_operator_precedence(op)
                right_assoc == is_right_associative(op)
                Pops(t) == ShouldPop(t, precedence, right_assoc)
                count == PopCount(stack, {j \in DOMAIN stack : ~Pops(stack[j])})
                rest == SubSeq(stack, 1, Len(stack) - count)
            IN  IF Len(out) + count > MAX_TOKENS THEN Failed(ERR_STACK_OVERFLOW)
                ELSE IF Len(rest) - 1 >= MAX_TOKENS - 1
                THEN Failed(ERR_STACK_OVERFLOW)
                ELSE ShuntResult(0, Append(rest, token),
                                 out \o Popped(stack, count))
      [] token.type = "TOKEN_RIGHT_PAREN" -> shunting_right_paren(stack, out)
      [] OTHER -> ShuntResult(0, stack, out)

\* a drain that moves every entry to the output, parentheses included
shunting_drain_unchecked(stack, out) ==
    IF Len(out) + Len(stack) > MAX_TOKENS
    THEN ShuntResult(ERR_STACK_OVERFLOW, stack, out)
    ELSE ShuntResult(0, <<>>, out \o Popped(stack, Len(stack)))

\* a drain that sends only the topmost entry to the output and drops the
\* entries below it
shunting_drain_top_only(stack, out) ==
    IF stack = <<>> THEN ShuntResult(0, <<>>, out)
    ELSE IF stack[Len(stack)].type = "TOKEN_LEFT_PAREN"
    THEN ShuntResult(ERR_MISMATCHED_PARENS, stack, out)
    ELSE IF Len(out) >= MAX_TOKENS
    THEN ShuntResult(ERR_STACK_OVERFLOW, stack, out)
    ELSE ShuntResult(0, <<>>, Append(out, stack[Len(stack)]))

\* The loop after the tokens ("Pop remaining operators"): every entry goes
\* to the output, the topmost first; a left parenthesis met on the way is
\* an error.
shunting_drain(stack, out) ==
    LET NotLeft(t) == t.type # "TOKEN_LEFT_PAREN"
        count == PopCount(stack, {j \in DOMAIN stack : ~NotLeft(stack[j])})
    IN  IF Len(out) + count > MAX_TOKENS
        THEN ShuntResult(ERR_STACK_OVERFLOW, stack, out)
        ELSE IF count < Len(stack)
        THEN ShuntResult(ERR_MISMATCHED_PARENS, stack, out)
        ELSE ShuntResult(0, <<>>, out \o Popped(stack, count))

\* ------------------------------------------------------------- evaluator
M_PI == [k |-> "sym", name |-> "M_PI"]
M_E == [k |-> "sym", name |-> "M_E"]

get_constant_value(constant) ==
    CASE constant = "CONST_PI" -> M_PI
      [] constant = "CONST_E" -> M_E
      [] OTHER -> Zero

get_variable_value(var, storage) ==
    CASE var = "VAR_ANS" -> storage.ans
      [] var = "VAR_X" -> storage.x
      [] var = "VAR_Y" -> storage.y
      [] var = "VAR_A" -> storage.a
      [] var = "VAR_B" -> storage.b
      [] var = "VAR_C" -> storage.c
      [] var = "VAR_D" -> storage.d
      [] var = "VAR_M" -> storage.m
      [] OTHER -> Zero

\* v < 0
IsNegative(v) ==
    \/ v.k \in {"rat", "angle"} /\ v.n < 0
    \/ v.k \in {"big", "inf"} /\ v.s < 0

\* n * 10^e > q, for n >= 1, e >= 0 and 0 <= q <= ExactMax * 1000
RECURSIVE ScaledGreater(_, _, _)
ScaledGreater(n, e, q) ==
    IF n > q THEN TRUE
    ELSE IF e = 0 THEN FALSE
    ELSE ScaledGreater(n * 10, e - 1, q)

\* n > q * 10^e, for 1 <= n <= ExactMax, e >= 0 and q >= 1
RECURSIVE GreaterScaled(_, _, _)
GreaterScaled(n, q, e) ==
    IF q >= n THEN FALSE
    ELSE IF e = 0 THEN TRUE
    ELSE GreaterScaled(n, q * 10, e - 1)

\* v > limit, for a whole number 1 <= limit <= 1000
GreaterThan(v, limit) ==
    \/ v.k \in {"big", "inf"} /\ v.s > 0
    \/ v.k = "sym" /\ limit < 2
    \/ /\ v.k = "rat"
       /\ v.n > 0
       /\ IF v.e >= 0 THEN ScaledGreater(v.n, v.e, limit * v.d)
          ELSE GreaterScaled(v.n, limit * v.d, -v.e)

\* a factorial without the test n < 0: the loop from 2 to n runs no
\* iteration for a negative n and leaves 1
factorial_unsigned(n) ==
    IF ~IsInteger(n) \/ GreaterThan(n, 170) THEN NaN
    ELSE IF IsNegative(n) THEN Num(1)
    ELSE OfLimbs(1, MulRange(<<1>>, 2, IntOf(n)))

factorial(n) ==
    IF IsNegative(n) \/ ~IsInteger(n) \/ GreaterThan(n, 170) THEN NaN
    ELSE OfLimbs(1, MulRange(<<1>>, 2, IntOf(n)))

\* the square root of the natural number x when that is a natural number,
\* else -1
ExactSqrt(x) ==
    LET roots == {r \in 0..174 : r * r = x}
    IN  IF roots = {} THEN -1 ELSE CHOOSE r \in roots : TRUE

\* The libm functions at the arguments where the result is a number the
\* model holds, and their domain errors; elsewhere the result is untracked.
sqrt(v) ==
    IF v.k # "rat" THEN OOR
    ELSE IF v.n < 0 THEN NaN
    ELSE IF v.e % 2 = 0 /\ ExactSqrt(v.n) >= 0 /\ ExactSqrt(v.d) >= 0
    THEN Norm(ExactSqrt(v.n), ExactSqrt(v.d), v.e \div 2)
    ELSE OOR

log10(v) ==
    IF v.k # "rat" THEN OOR
    ELSE IF v.n < 0 THEN NaN
    ELSE IF v.n = 0 THEN Inf(-1)
    ELSE IF v.n = 1 /\ v.d = 1 THEN Norm(v.e, 1, 0)
    ELSE OOR

log(v) ==
    IF v = M_E THEN Num(1)
    ELSE IF v.k # "rat" THEN OOR
    ELSE IF v.n < 0 THEN NaN
    ELSE IF v.n = 0 THEN Inf(-1)
    ELSE IF v = Num(1) THEN Zero
    ELSE OOR

\* asin and acos: NaN outside [-1, 1]
OutsideUnit(v) == v.k = "rat" /\ GreaterThan([v EXCEPT !.n = Abs(v.n)], 1)

ValueAt(v, at, result) == IF v = at THEN result ELSE OOR

fabs(v) ==
    IF v.k \in {"rat", "angle"} THEN [v EXCEPT !.n = Abs(v.n)]
    ELSE IF v.k \in {"big", "inf"} THEN [v EXCEPT !.s = 1]
    ELSE v

\* exp (Exp), sinh, cosh and tanh at zero
Exp(v) == ValueAt(v, Zero, Num(1))
sinh(v) == ValueAt(v, Zero, Zero)
cosh(v) == ValueAt(v, Zero, Num(1))
tanh(v) == ValueAt(v, Zero, Zero)

\* the double nearest (n / d) * pi: M_PI itself for n = d; the others are
\* the doubles q * M_PI / 180.0 gives for q = 90, 270, 360, that asin, acos
\* and atan return at -1 and 1, and their negatives
PiTimes(n, d) ==
    IF n = 0 THEN Zero
    ELSE IF n = d THEN M_PI
    ELSE [k |-> "angle", n |-> n, d |-> d]

\* sin, cos and tan at the arguments where the double returned is a number
\* the model holds: sin(M_PI / 2) is 1.0 and cos(M_PI) is -1.0, while
\* sin(M_PI), cos(M_PI / 2) and tan(M_PI / 4) are doubles next to 0 and 1
sin(v) ==
    CASE v.k \in {"inf", "nan"} -> NaN
      [] v = Zero -> Zero
      [] v \in {PiTimes(1, 2), PiTimes(-3, 2)} -> Num(1)
      [] v \in {PiTimes(-1, 2), PiTimes(3, 2)} -> Num(-1)
      [] OTHER -> OOR

cos(v) ==
    CASE v.k \in {"inf", "nan"} -> NaN
      [] v = Zero -> Num(1)
      [] v \in {M_PI, PiTimes(-1, 1)} -> Num(-1)
      [] v \in {PiTimes(2, 1), PiTimes(-2, 1)} -> Num(1)
      [] OTHER -> OOR

tan(v) ==
    CASE v.k \in {"inf", "nan"} -> NaN
      [] v = Zero -> Zero
      [] OTHER -> OOR

asin(v) ==
    CASE v.k = "nan" \/ OutsideUnit(v) -> NaN
      [] v = Zero -> Zero
      [] v = Num(1) -> PiTimes(1, 2)
      [] v = Num(-1) -> PiTimes(-1, 2)
      [] OTHER -> OOR

acos(v) ==
    CASE v.k = "nan" \/ OutsideUnit(v) -> NaN
      [] v = Num(1) -> Zero
      [] v = Zero -> PiTimes(1, 2)
      [] v = Num(-1) -> M_PI
      [] OTHER -> OOR

atan(v) ==
    CASE v.k = "nan" -> NaN
      [] v = Zero -> Zero
      [] v = Num(1) -> PiTimes(1, 4)
      [] v = Num(-1) -> PiTimes(-1, 4)
      [] OTHER -> OOR

\* arg * M_PI / 180.0, which is the double of a multiple of M_PI / 2 for
\* the quarter turns up to a full turn
DegreesToRadians(arg) ==
    CASE arg.k \in {"inf", "nan"} -> arg
      [] arg = Zero -> Zero
      [] \E q \in {-4, -3, -2, -1, 1, 2, 3, 4} : arg = Num(90 * q) ->
            The({IF q % 2 = 0 THEN PiTimes(q \div 2, 1) ELSE PiTimes(q, 2) :
                 q \in {x \in {-4, -3, -2, -1, 1, 2, 3, 4} : arg = Num(90 * x)}})
      [] OTHER -> OOR

\* result * 180.0 / M_PI, which is a whole number of degrees for the
\* multiples of M_PI / 4 that asin, acos and atan return
RadiansToDegrees(r) ==
    CASE r.k \in {"inf", "nan"} -> r
      [] r = Zero -> Zero
      [] r = M_PI -> Num(180)
      [] r.k = "angle" /\ r.d \in {2, 4} /\ r.n \in {-1, 1} ->
            Num(r.n * (180 \div r.d))
      [] OTHER -> OOR

\* every function in radians, whatever the angle mode
apply_function_in_radians(func, arg, deg_mode) ==
    CASE func = "FUNC_SIN" -> sin(arg)
      [] func = "FUNC_COS" -> cos(arg)
      [] func = "FUNC_TAN" -> tan(arg)
      [] func = "FUNC_ASIN" -> asin(arg)
      [] func = "FUNC_ACOS" -> acos(arg)
      [] func = "FUNC_ATAN" -> atan(arg)
      [] func = "FUNC_LOG" -> log10(arg)
      [] func = "FUNC_LN" -> log(arg)
      [] func = "FUNC_LOG10" -> log10(arg)
      [] func = "FUNC_SQRT" -> sqrt(arg)
      [] func = "FUNC_ABS" -> fabs(arg)
      [] func = "FUNC_EXP" -> Exp(arg)
      [] func = "FUNC_SINH" -> sinh(arg)
      [] func = "FUNC_COSH" -> cosh(arg)
      [] func = "FUNC_TANH" -> tanh(arg)
      [] func = "FUNC_FACTORIAL" -> factorial(arg)
      [] OTHER -> NaN

apply_function(func, arg, deg_mode) ==
    LET angle_arg == IF deg_mode /\ func \in {"FUNC_SIN", "FUNC_COS", "FUNC_TAN"}
                     THEN DegreesToRadians(arg)
                     ELSE arg
    IN
    CASE func = "FUNC_SIN" -> sin(angle_arg)
      [] func = "FUNC_COS" -> cos(angle_arg)
      [] func = "FUNC_TAN" -> tan(angle_arg)
      [] func = "FUNC_ASIN" ->
            IF deg_mode THEN RadiansToDegrees(asin(arg)) ELSE asin(arg)
      [] func = "FUNC_ACOS" ->
            IF deg_mode THEN RadiansToDegrees(acos(arg)) ELSE acos(arg)
      [] func = "FUNC_ATAN" ->
            IF deg_mode THEN RadiansToDegrees(atan(arg)) ELSE atan(arg)
      [] func = "FUNC_LOG" -> log10(arg)
      [] func = "FUNC_LN" -> log(arg)
      [] func = "FUNC_LOG10" -> log10(arg)
      [] func = "FUNC_SQRT" -> sqrt(arg)
      [] func = "FUNC_ABS" -> fabs(arg)
      [] func = "FUNC_EXP" -> Exp(arg)
      [] func = "FUNC_SINH" -> sinh(arg)
      [] func = "FUNC_COSH" -> cosh(arg)
      [] func = "FUNC_TANH" -> tanh(arg)
      [] func = "FUNC_FACTORIAL" -> factorial(arg)
      [] OTHER -> NaN

EvalResult(err, stack) == [err |-> err, stack |-> stack]

\* One iteration of the loop of evaluate_rpn: the value stack
\* (stack_top = Len(stack) - 1) after the token, or the error returned.
evaluate_step(token, stack, context) ==
    LET top == Len(stack)
        Push(v) == IF top - 1 >= MAX_TOKENS - 1
                   THEN EvalResult(ERR_STACK_OVERFLOW, stack)
                   ELSE EvalResult(0, Append(stack, v))
    IN
    CASE token.type = "TOKEN_NUMBER" -> Push(token.number)
      [] token.type = "TOKEN_CONSTANT" -> Push(get_constant_value(token.sym))
      [] token.type = "TOKEN_VARIABLE" ->
            Push(get_variable_value(token.sym, context.variables))
      [] token.type = "TOKEN_OPERATOR" ->
            IF top - 1 < 1 THEN EvalResult(ERR_SYNTAX_ERROR, stack)
            ELSE LET b == stack[top]
                     a == stack[top - 1]
                     rest == SubSeq(stack, 1, top - 2)
                 IN  IF token.sym \notin {"+", "-", "*", "/", "^"}
                     THEN EvalResult(ERR_SYNTAX_ERROR, stack)
                     ELSE IF token.sym = "/" /\ BelowEps(b)
                     THEN EvalResult(ERR_DIVISION_BY_ZERO, stack)
                     ELSE The({IF ~isfinite(op_result) /\ op_result # OOR
                               THEN EvalResult(ERR_OVERFLOW, stack)
                               ELSE EvalResult(0, Append(rest, op_result)) :
                               op_result \in {Arith(token.sym, a, b)}})
      [] token.type = "TOKEN_UNARY_MINUS" ->
            IF top - 1 < 0 THEN EvalResult(ERR_SYNTAX_ERROR, stack)
            ELSE EvalResult(0, [stack EXCEPT ![top] = Neg(stack[top])])
      [] token.type = "TOKEN_FUNCTION" ->
            IF top - 1 < 0 THEN EvalResult(ERR_SYNTAX_ERROR, stack)
            ELSE LET arg == stack[top]
                     rest == SubSeq(stack, 1, top - 1)
                 IN  The({IF ~isfinite(func_result) /\ func_result # OOR
                          THEN EvalResult(ERR_DOMAIN_ERROR, stack)
                          ELSE EvalResult(0, Append(rest, func_result)) :
                          func_result \in {apply_function(token.sym, arg,
                                                          context.deg_mode)}})
      [] OTHER -> EvalResult(ERR_SYNTAX_ERROR, stack)

\* --------------------------------------------------------------- snprintf
\* The decimal expansion of a value other than zero: count digits from the
\* leading one, which stands for 10^exp, and whether nonzero digits follow.
\* The digits of (n0 / d0) for d0 <= n0 < 10 * d0, by long division:
RECURSIVE LongDivision(_, _, _, _)
LongDivision(n0, d0, count, acc) ==
    IF count = 0 THEN [digits |-> acc, more |-> n0 # 0]
    ELSE LongDivision((n0 % d0) * 10, d0, count - 1, Append(acc, n0 \div d0))

\* the digit at place k, counted from the leading digit, of the whole
\* number held by the limbs; zero behind the last digit
LimbDigit(limbs, k) ==
    LET total == NumDigits(limbs[Len(limbs)]) + 6 * (Len(limbs) - 1)
        place == total - k
    IN  IF place < 0 THEN 0
        ELSE (limbs[place \div 6 + 1] \div Pow10(place % 6)) % 10

\* the first 17 digits of the doubles M_PI and M_E
PiDigits == <<3, 1, 4, 1, 5, 9, 2, 6, 5, 3, 5, 8, 9, 7, 9, 3, 1>>
EDigits == <<2, 7, 1, 8, 2, 8, 1, 8, 2, 8, 4, 5, 9, 0, 4, 5, 1>>

\* the double holds (n/d) * 10^e itself, not a neighbour of it: a binary
\* fraction of few digits
ExactDouble(v) ==
    /\ v.d \in {Pow2(k) : k \in 0..14}
    /\ v.e <= 15
    /\ v.e >= -6
    /\ v.e < 0 => Abs(v.n) % IntPow(5, -v.e) = 0

Expansion(v, count) ==
    CASE v.k = "rat" ->
            LET l == FloorLog10(Abs(v.n), v.d)
                n0 == IF l < 0 THEN Abs(v.n) * Pow10(-l) ELSE Abs(v.n)
                d0 == IF l > 0 THEN v.d * Pow10(l) ELSE v.d
                q == LongDivision(n0, d0, count, <<>>)
            IN  [digits |-> q.digits, more |-> q.more, exp |-> l + v.e,
                 exact |-> ExactDouble(v)]
      [] v.k = "big" ->
            LET total == NumDigits(v.limbs[Len(v.limbs)])
                             + 6 * (Len(v.limbs) - 1)
            IN  [digits |-> [k \in 1..count |-> LimbDigit(v.limbs, k)],
                 more |-> \E k \in (count + 1)..total :
                              LimbDigit(v.limbs, k) # 0,
                 exp |-> total - 1, exact |-> FALSE]
      [] v.k = "sym" ->
            LET ds == IF v = M_PI THEN PiDigits ELSE EDigits
            IN  [digits |-> [k \in 1..count |->
                                IF k <= Len(ds) THEN ds[k] ELSE 0],
                 more |-> TRUE, exp |-> 0, exact |-> FALSE]

\* digits + 1 in the last place: the digits, and whether a leading 1 was
\* carried out of them (the digits are then all zero)
Carried(digits) ==
    LET keep == {k \in DOMAIN digits : digits[k] # 9}
        at == IF keep = {} THEN 0
              ELSE CHOOSE k \in keep : \A j \in keep : j <= k
    IN  [digits |-> [k \in DOMAIN digits |->
                        IF k < at THEN digits[k]
                        ELSE IF k = at THEN digits[k] + 1
                        ELSE IF at = 0 /\ k = 1 THEN 1 ELSE 0],
         carry |-> at = 0]

\* The roundings of a value other than zero to places significant digits
\* (places >= 1): the digits and the power of ten the first stands for.
\* The digits behind the last place decide, to even on a tie; a double is
\* the value of the model up to one part in 10^16, so behind the digits
\* 50000 and 49999 either rounding is possible when the value is not
\* exact.
RoundedAt(x, places) ==
    LET kept == SubSeq(x.digits, 1, places)
        tail == SubSeq(x.digits, places + 1, places + 6)
        down == [digits |-> kept, exp |-> x.exp]
        c == Carried(kept)
        up == [digits |-> c.digits, exp |-> IF c.carry THEN x.exp + 1 ELSE x.exp]
        zeros == \A k \in 2..6 : tail[k] = 0
        nines == \A k \in 2..6 : tail[k] = 9
    IN  IF tail[1] = 5 /\ zeros /\ ~x.more /\ x.exact
        THEN {IF kept[places] % 2 = 0 THEN down ELSE up}
        ELSE IF ~x.exact /\ ((tail[1] = 5 /\ zeros) \/ (tail[1] = 4 /\ nines))
        THEN {down, up}
        ELSE IF tail[1] >= 5 THEN {up}
        ELSE {down}

Rounded(v, places) == RoundedAt(Expansion(v, places + 6), places)

\* the characters of the digits, and digits without their trailing zeros
DigitText(digits) == [k \in DOMAIN digits |-> DigitChars[digits[k] + 1]]
Stripped(digits) ==
    LET keep == {k \in DOMAIN digits : digits[k] # 0}
        last == IF keep = {} THEN 0
                ELSE CHOOSE k \in keep : \A j \in keep : j <= k
    IN  SubSeq(digits, 1, last)
ZeroText(count) == [k \in 1..count |-> "0"]

\* the exponent part of the e style: e, a sign, at least two digits
ExponentText(exp) ==
    <<"e", IF exp < 0 THEN "-" ELSE "+">>
    \o (IF Abs(exp) < 10 THEN <<"0">> ELSE <<>>) \o DigitText(
           [k \in 1..NumDigits(Abs(exp)) |->
               (Abs(exp) \div Pow10(NumDigits(Abs(exp)) - k)) % 10])

\* the e style of the rounding r: d.ddd e+-xx, with all its digits or
\* (for %g) without the trailing zeros
StyleE(r, strip) ==
    LET rest == IF strip THEN Stripped(SubSeq(r.digits, 2, Len(r.digits)))
                ELSE SubSeq(r.digits, 2, Len(r.digits))
    IN  DigitText(<<r.digits[1]>>)
        \o (IF rest = <<>> THEN <<>> ELSE <<".">> \o DigitText(rest))
        \o ExponentText(r.exp)

\* the f style of the rounding r, whose digits end at the last decimal
\* asked for: the whole part, a point and the decimals, all of them or
\* (for %g) without the trailing zeros
StyleF(r, strip) ==
    LET whole == IF r.exp < 0 THEN <<0>>
                 ELSE SubSeq(r.digits, 1, r.exp + 1)
        behind == IF r.exp < 0
                  THEN [k \in 1..(-r.exp - 1) |-> 0] \o r.digits
                  ELSE SubSeq(r.digits, r.exp + 2, Len(r.digits))
        rest == IF strip THEN Stripped(behind) ELSE behind
    IN  DigitText(whole)
        \o (IF rest = <<>> THEN <<>> ELSE <<".">> \o DigitText(rest))

\* the texts printf can make of the magnitude of v, a finite value other
\* than zero, for the conversions e, f and g with a precision
MagnitudeTexts(conv, precision, v) ==
    CASE conv = "e" -> {StyleE(r, FALSE) : r \in Rounded(v, precision + 1)}
      [] conv = "g" ->
            LET places == IF precision = 0 THEN 1 ELSE precision
            IN  {IF r.exp < -4 \/ r.exp >= places THEN StyleE(r, TRUE)
                 ELSE StyleF(r, TRUE) : r \in Rounded(v, places)}
      [] conv = "f" ->
            LET x == Expansion(v, 1)
                y == Expansion(v, 6)
                places == x.exp + 1 + precision
            IN  IF places >= 1
                THEN {StyleF(IF r.exp > x.exp
                             THEN [r EXCEPT !.digits = Append(@, 0)]
                             ELSE r, FALSE) : r \in Rounded(v, places)}
                ELSE IF places = 0
                THEN \* the leading digit stands behind the last decimal
                     {StyleF(r, FALSE) :
                        r \in RoundedAt([y EXCEPT !.digits = <<0>> \o @,
                                                  !.exp = @ + 1], 1)}
                ELSE {StyleF([digits |-> <<0>>, exp |-> -precision], FALSE)}

\* snprintf(buffer, size, format, value) for a format of one conversion
\* %.<precision><conv> and a double: the texts the buffer can hold
\* afterwards, cut to size - 1 characters. The model of a double keeps
\* neither the sign of zero nor that of NaN, so both signs are possible.
snprintf(size, format, value) ==
    LET Cut(text) == SubSeq(text, 1, IF Len(text) < size - 1 THEN Len(text)
                                     ELSE size - 1)
        zero == CASE format.conv = "e" ->
                        <<"0">> \o (IF format.precision = 0 THEN <<>>
                                    ELSE <<".">> \o ZeroText(format.precision))
                        \o ExponentText(0)
                  [] format.conv = "f" ->
                        <<"0">> \o (IF format.precision = 0 THEN <<>>
                                    ELSE <<".">> \o ZeroText(format.precision))
                  [] OTHER -> <<"0">>
    IN  CASE value.k = "nan" -> {<<"n", "a", "n">>, <<"-", "n", "a", "n">>}
          [] value.k = "inf" ->
                {(IF value.s < 0 THEN <<"-">> ELSE <<>>) \o <<"i", "n", "f">>}
          [] value = Zero -> {Cut(zero), Cut(<<"-">> \o zero)}
          [] OTHER ->
                {Cut((IF IsNegative(value) THEN <<"-">> ELSE <<>>) \o text) :
                    text \in MagnitudeTexts(format.conv, format.precision,
                                            value)}

\* ------------------------------------------------------------------ state
VARIABLES
    pc,              \* where the call of evaluate_expression stands
    expression,      \* the argument expression
    context,         \* the argument context: [variables, deg_mode]
    result,          \* the caller's variable that result points to
    ret,             \* the value evaluate_expression returned
    pos,             \* tokenize_expression: pos
    token_count,     \* tokenize_expression: token_count
    expect_number,   \* tokenize_expression: expect_number
    tokens,          \* parse_expression_to_rpn: tokens[], the part written
    i,               \* the loop index of the running for loop
    operator_stack,  \* parse_expression_to_rpn: operator_stack[0..stack_top]
    rpn_queue,       \* evaluate_expression: rpn_queue.tokens[0..count-1]
    stack,           \* evaluate_rpn: stack[0..stack_top]
    other,           \* the arguments, locals and return value of a second
                     \* call of evaluate_expression, which is not running
    calc,            \* the calculator_t that calculator_execute works on
    keypad,          \* keypad_handler.c: key_msgq and the keys on their way
    main_key         \* main: key, what keypad_get_key returned last

vars == <<pc, expression, context, result, ret, pos, token_count,
          expect_number, tokens, i, operator_stack, rpn_queue, stack, other,
          calc, keypad, main_key>>

\* the content of a variable nothing was stored in
Unwritten == [k |-> "unwritten"]
NoReturn == 1
\* no second call, no calculator
NoCall == [pc |-> "none"]
NoCalc == [state |-> "none"]
\* no keypad: nothing queued, no key polled
NoKeypad == [key_msgq |-> <<>>]

\* evaluate_expression is entered with an expression and a context; the
\* locals of the three functions start as their declarations leave them
Entered(exprs, contexts) ==
    /\ expression \in exprs
    /\ context \in contexts
    /\ result = Unwritten
    /\ ret = NoReturn
    /\ pc = "tokenize"
    /\ pos = 0
    /\ token_count = 0
    /\ expect_number = TRUE
    /\ tokens = <<>>
    /\ i = 0
    /\ operator_stack = <<>>
    /\ rpn_queue = <<>>
    /\ stack = <<>>
    /\ other = NoCall
    /\ calc = NoCalc
    /\ keypad = NoKeypad
    /\ main_key = "KEY_NONE"

\* an error that is recorded while the next phase is entered all the same
Return_and_go_on(err) ==
    /\ ret' = err
    /\ pc' = CASE pc = "tokenize" -> "tokenize_end"
               [] pc = "convert" -> "evaluate"
               [] OTHER -> "done"

\* evaluate_expression returns err, through parse_expression_to_rpn when
\* the error is the tokenizer's or the converter's
Return(err) ==
    /\ ret' = err
    /\ pc' = "done"

\* a loop condition without the capacity test
tokenize_expression_unbounded == pos < Len(expression)

\* the condition of the while loop of tokenize_expression
tokenize_expression_continues ==
    pos < Len(expression) /\ token_count < MAX_TOKENS - 1

\* a tokenizer that never expects an operand: every iteration runs with
\* the flag expect_number false
tokenize_expression_loop_after_operand ==
    /\ pc = "tokenize"
    /\ tokenize_expression_continues
    /\ \E r \in {tokenize_step(expression, pos, FALSE)} :
           /\ r.token.number # OOR
           /\ IF r.err < 0
              THEN /\ Return(r.err)
                   /\ UNCHANGED <<pos, token_count, expect_number, tokens>>
              ELSE /\ pos' = r.pos
                   /\ expect_number' = r.expect
                   /\ tokens' = IF r.brk THEN tokens ELSE Append(tokens, r.token)
                   /\ token_count' = IF r.brk THEN token_count
                                     ELSE token_count + 1
                   /\ pc' = IF r.brk THEN "tokenize_end" ELSE pc
                   /\ ret' = ret
    /\ UNCHANGED <<expression, context, result, i, operator_stack, rpn_queue,
                   stack>>
    /\ UNCHANGED <<other, calc, keypad, main_key>>

\* a tokenizer whose flag expect_number stays as it was set at the start
tokenize_expression_loop_keeping_flag ==
    /\ pc = "tokenize"
    /\ tokenize_expression_continues
    /\ \E r \in {tokenize_step(expression, pos, expect_number)} :
           /\ r.token.number # OOR
           /\ IF r.err < 0
              THEN /\ Return(r.err)
                   /\ UNCHANGED <<pos, token_count, expect_number, tokens>>
              ELSE /\ pos' = r.pos
                   /\ expect_number' = expect_number
                   /\ tokens' = IF r.brk THEN tokens ELSE Append(tokens, r.token)
                   /\ token_count' = IF r.brk THEN token_count
                                     ELSE token_count + 1
                   /\ pc' = IF r.brk THEN "tokenize_end" ELSE pc
                   /\ ret' = ret
    /\ UNCHANGED <<expression, context, result, i, operator_stack, rpn_queue,
                   stack>>
    /\ UNCHANGED <<other, calc, keypad, main_key>>

\* one iteration of the while loop of tokenize_expression
tokenize_expression_loop ==
    /\ pc = "tokenize"
    /\ tokenize_expression_continues
    /\ \E r \in {tokenize_step(expression, pos, expect_number)} :
           /\ r.token.number # OOR
           /\ IF r.err < 0
              THEN /\ Return(r.err)
                   /\ UNCHANGED <<pos, token_count, expect_number, tokens>>
              ELSE /\ pos' = r.pos
                   /\ expect_number' = r.expect
                   /\ tokens' = IF r.brk THEN tokens ELSE Append(tokens, r.token)
                   /\ token_count' = IF r.brk THEN token_count
                                     ELSE token_count + 1
                   /\ pc' = IF r.brk THEN "tokenize_end" ELSE pc
                   /\ ret' = ret
    /\ UNCHANGED <<expression, context, result, i, operator_stack, rpn_queue,
                   stack>>
    /\ UNCHANGED <<other, calc, keypad, main_key>>

\* a converter that appends to the queue it is handed, without setting
\* its count to zero first
tokenize_expression_end_keeping_queue ==
    /\ pc = "tokenize_end"
       \/ (pc = "tokenize" /\ ~tokenize_expression_continues)
    /\ tokens' = Append(tokens, Token("TOKEN_END", NoNumber, ""))
    /\ rpn_queue' = rpn_queue
    /\ i' = 0
    /\ pc' = "convert"
    /\ UNCHANGED <<expression, context, result, ret, pos, token_count,
                   expect_number, operator_stack, stack>>
    /\ UNCHANGED <<other, calc, keypad, main_key>>

\* the loop of tokenize_expression is left: the end marker is stored at
\* tokens[token_count], token_count is returned, and parse_expression_to_rpn
\* empties the queue and starts its loop
tokenize_expression_end ==
    /\ pc = "tokenize_end"
       \/ (pc = "tokenize" /\ ~tokenize_expression_continues)
    /\ tokens' = Append(tokens, Token("TOKEN_END", NoNumber, ""))
    /\ rpn_queue' = <<>>
    /\ i' = 0
    /\ pc' = "convert"
    /\ UNCHANGED <<expression, context, result, ret, pos, token_count,
                   expect_number, operator_stack, stack>>
    /\ UNCHANGED <<other, calc, keypad, main_key>>

\* a for loop that handles the token at i again and again, its index
\* staying where it is
parse_expression_to_rpn_loop_in_place ==
    /\ pc = "convert"
    /\ i < token_count
    /\ \E r \in {shunting_step(tokens[i + 1], operator_stack, rpn_queue)} :
           IF r.err < 0
           THEN /\ Return(r.err)
                /\ UNCHANGED <<i, operator_stack, rpn_queue>>
           ELSE /\ operator_stack' = r.stack
                /\ rpn_queue' = r.out
                /\ i' = i
                /\ UNCHANGED <<pc, ret>>
    /\ UNCHANGED <<expression, context, result, pos, token_count,
                   expect_number, tokens, stack>>
    /\ UNCHANGED <<other, calc, keypad, main_key>>

\* one iteration of the for loop of parse_expression_to_rpn
parse_expression_to_rpn_loop ==
    /\ pc = "convert"
    /\ i < token_count
    /\ \E r \in {shunting_step(tokens[i + 1], operator_stack, rpn_queue)} :
           IF r.err < 0
           THEN /\ Return(r.err)
                /\ UNCHANGED <<i, operator_stack, rpn_queue>>
           ELSE /\ operator_stack' = r.stack
                /\ rpn_queue' = r.out
                /\ i' = i + 1
                /\ UNCHANGED <<pc, ret>>
    /\ UNCHANGED <<expression, context, result, pos, token_count,
                   expect_number, tokens, stack>>
    /\ UNCHANGED <<other, calc, keypad, main_key>>

\* after the for loop: the remaining operators are popped, and on success
\* evaluate_expression calls evaluate_rpn
parse_expression_to_rpn_end ==
    /\ pc = "convert"
    /\ i >= token_count
    /\ \E r \in {shunting_drain(operator_stack, rpn_queue)} :
           IF r.err < 0
           THEN /\ Return(r.err)
                /\ UNCHANGED <<i, operator_stack, rpn_queue, stack>>
           ELSE /\ operator_stack' = r.stack
                /\ rpn_queue' = r.out
                /\ i' = 0
                /\ stack' = <<>>
                /\ pc' = "evaluate"
                /\ ret' = ret
    /\ UNCHANGED <<expression, context, result, pos, token_count,
                   expect_number, tokens>>
    /\ UNCHANGED <<other, calc, keypad, main_key>>

\* an evaluator that takes a missing operand as zero
evaluate_rpn_loop_padding ==
    /\ pc = "evaluate"
    /\ i < Len(rpn_queue)
    /\ \E need \in {CASE rpn_queue[i + 1].type = "TOKEN_OPERATOR" -> 2
                      [] rpn_queue[i + 1].type
                            \in {"TOKEN_UNARY_MINUS", "TOKEN_FUNCTION"} -> 1
                      [] OTHER -> 0} :
       \E r \in {evaluate_step(rpn_queue[i + 1],
                               [k \in 1..(need - Len(stack)) |-> Zero] \o stack,
                               context)} :
           /\ OOR \notin Range(r.stack)
           /\ IF r.err < 0
              THEN /\ Return(r.err)
                   /\ UNCHANGED <<i, stack>>
              ELSE /\ stack' = r.stack
                   /\ i' = i + 1
                   /\ UNCHANGED <<pc, ret>>
    /\ UNCHANGED <<expression, context, result, pos, token_count,
                   expect_number, tokens, operator_stack, rpn_queue>>
    /\ UNCHANGED <<other, calc, keypad, main_key>>

\* one iteration of the for loop of evaluate_rpn
evaluate_rpn_loop ==
    /\ pc = "evaluate"
    /\ i < Len(rpn_queue)
    /\ \E r \in {evaluate_step(rpn_queue[i + 1], stack, context)} :
           /\ OOR \notin Range(r.stack)
           /\ IF r.err < 0
              THEN /\ Return(r.err)
                   /\ UNCHANGED <<i, stack>>
              ELSE /\ stack' = r.stack
                   /\ i' = i + 1
                   /\ UNCHANGED <<pc, ret>>
    /\ UNCHANGED <<expression, context, result, pos, token_count,
                   expect_number, tokens, operator_stack, rpn_queue>>
    /\ UNCHANGED <<other, calc, keypad, main_key>>

\* an evaluator that keeps the last result itself: on success it also
\* stores the value in the slot ans of the context
evaluate_rpn_end_storing_ans ==
    /\ pc = "evaluate"
    /\ i >= Len(rpn_queue)
    /\ IF Len(stack) - 1 # 0
       THEN /\ Return(ERR_SYNTAX_ERROR)
            /\ UNCHANGED <<result, context>>
       ELSE /\ result' = stack[1]
            /\ context' = [context EXCEPT !.variables.ans = stack[1]]
            /\ Return(0)
    /\ UNCHANGED <<expression, pos, token_count, expect_number,
                   tokens, i, operator_stack, rpn_queue, stack>>
    /\ UNCHANGED <<other, calc, keypad, main_key>>

\* an evaluator that takes the value on top of a stack of one or more
\* values as the result
evaluate_rpn_end_top ==
    /\ pc = "evaluate"
    /\ i >= Len(rpn_queue)
    /\ IF Len(stack) - 1 < 0
       THEN /\ Return(ERR_SYNTAX_ERROR)
            /\ result' = result
       ELSE /\ result' = stack[Len(stack)]
            /\ Return(0)
    /\ UNCHANGED <<expression, context, pos, token_count, expect_number,
                   tokens, i, operator_stack, rpn_queue, stack>>
    /\ UNCHANGED <<other, calc, keypad, main_key>>

\* after the for loop of evaluate_rpn: exactly one value is the result
evaluate_rpn_end ==
    /\ pc = "evaluate"
    /\ i >= Len(rpn_queue)
    /\ IF Len(stack) - 1 # 0
       THEN /\ Return(ERR_SYNTAX_ERROR)
            /\ result' = result
       ELSE /\ result' = stack[1]
            /\ Return(0)
    /\ UNCHANGED <<expression, context, pos, token_count, expect_number,
                   tokens, i, operator_stack, rpn_queue, stack>>
    /\ UNCHANGED <<other, calc, keypad, main_key>>

Next ==
    \/ tokenize_expression_loop
    \/ tokenize_expression_end
    \/ parse_expression_to_rpn_loop
    \/ parse_expression_to_rpn_end
    \/ evaluate_rpn_loop
    \/ evaluate_rpn_end

\* ------------------------------------------------------------- calculator
\* calculator_t as a record: state, prev_state, mode, the buffers
\* (input_buffer and result_buffer as sequences of characters up to the
\* NUL), input_pos, cursor_pos, menu_selection, memory, the flags, and
\* eval_context.
\* calculator_set_error: the message is shorter than the error buffer
calculator_set_error(c, error_msg) ==
    [c EXCEPT !.error_buffer = error_msg,
              !.state = "STATE_SHOW_ERROR",
              !.error_state = TRUE]

\* the switch of calculator_execute on the error code
error_msg(eval_result) ==
    CASE eval_result = -1 -> "Syntax Error"
      [] eval_result = -2 -> "Math Error"
      [] eval_result = -3 -> "Domain Error"
      [] eval_result = -4 -> "Overflow"
      [] OTHER -> "Error"

\* the format calculator_execute prints the result with
result_format(mode) ==
    IF mode.sci_mode THEN [conv |-> "e", precision |-> 6]
    ELSE IF mode.fix_mode THEN [conv |-> "f", precision |-> mode.decimal_places]
    ELSE [conv |-> "g", precision |-> 10]

\* calculator_execute up to its call of evaluate_expression: nothing
\* happens for an empty input or the input "0"; otherwise the memory and
\* the angle mode are copied into the context and the evaluation of the
\* input buffer starts, its result going to an uninitialised local
calculator_execute_call ==
    /\ pc = "idle"
    /\ calc # NoCalc
    /\ IF calc.input_buffer \in {<<>>, <<"0">>}
       THEN /\ pc' = "returned"
            /\ UNCHANGED <<expression, context, result, ret, calc>>
       ELSE \E c \in {[calc EXCEPT !.eval_context =
                          [variables |-> [ans |-> calc.memory.ans,
                                          x |-> calc.memory.x,
                                          y |-> calc.memory.y,
                                          a |-> calc.memory.a,
                                          b |-> calc.memory.b,
                                          c |-> calc.memory.c,
                                          d |-> calc.memory.d,
                                          m |-> calc.memory.m],
                           deg_mode |-> calc.mode.deg_mode]]} :
                /\ calc' = c
                /\ expression' = c.input_buffer
                /\ context' = c.eval_context
                /\ result' = Unwritten
                /\ ret' = NoReturn
                /\ pc' = "tokenize"
    /\ UNCHANGED <<pos, token_count, expect_number, tokens, i,
                   operator_stack, rpn_queue, stack, other, keypad, main_key>>

\* a calculator that stores the result in the memory before it looks at
\* the error code
calculator_execute_return_storing_first ==
    /\ pc = "done"
    /\ calc # NoCalc
    /\ \E stored \in {[calc EXCEPT !.memory.ans = result,
                                    !.memory.has_ans = TRUE]} :
          IF ret = 0
          THEN \E text \in snprintf(64, result_format(calc.mode), result) :
                  calc' = [stored EXCEPT !.result_buffer = text,
                                         !.state = "STATE_SHOW_RESULT",
                                         !.calculation_done = TRUE,
                                         !.new_number = TRUE]
          ELSE calc' = calculator_set_error(stored, error_msg(ret))
    /\ pc' = "returned"
    /\ UNCHANGED <<expression, context, result, ret, pos, token_count,
                   expect_number, tokens, i, operator_stack, rpn_queue,
                   stack, other, keypad, main_key>>

\* calculator_execute after evaluate_expression has returned: a success
\* goes to the memory and the result buffer, an error to the error buffer
calculator_execute_return ==
    /\ pc = "done"
    /\ calc # NoCalc
    /\ IF ret = 0
       THEN \E text \in snprintf(64, result_format(calc.mode), result) :
               calc' = [calc EXCEPT !.memory.ans = result,
                                    !.memory.has_ans = TRUE,
                                    !.result_buffer = text,
                                    !.state = "STATE_SHOW_RESULT",
                                    !.calculation_done = TRUE,
                                    !.new_number = TRUE]
       ELSE calc' = calculator_set_error(calc, error_msg(ret))
    /\ pc' = "returned"
    /\ UNCHANGED <<expression, context, result, ret, pos, token_count,
                   expect_number, tokens, i, operator_stack, rpn_queue,
                   stack, other, keypad, main_key>>

NextCalc ==
    \/ calculator_execute_call
    \/ Next
    \/ calculator_execute_return

\* ----------------------------------------------------------------- inputs
\* the decimal digits of the natural number x
RECURSIVE Dec(_)
Dec(x) == IF x < 10 THEN <<DigitChars[x + 1]>>
          ELSE Dec(x \div 10) \o <<DigitChars[(x % 10) + 1]>>

BinaryOps == {"+", "-", "*", "/", "^"}
Operands == {Dec(x) : x \in 0..MaxOperand}

Storage(ans, x, y, a, b, c, d, m) ==
    [ans |-> ans, x |-> x, y |-> y, a |-> a, b |-> b, c |-> c, d |-> d, m |-> m]

\* a context whose X, Y and M lie next to the division threshold 1e-15:
\* X = 1e-16, Y = 1e-15, M = -(1/3)e-15
TinyContext ==
    [variables |-> Storage(Num(10), Norm(1, 1, -16), Norm(1, 1, -15), Num(11),
                           Num(12), Num(13), Num(14), Norm(-1, 3, -15)),
     deg_mode |-> TRUE]

\* The arithmetic expressions: two or three operands joined by binary
\* operators, with a unary minus or parentheses, balanced or not.
Atoms == Operands \cup {<<"X">>, <<"Y">>, <<"M">>}
ArithExprs ==
    {a \o <<o>> \o b : a \in Atoms, o \in BinaryOps, b \in Atoms}
    \cup {<<"-">> \o a \o <<o>> \o b : a \in Operands, o \in BinaryOps, b \in Operands}
    \cup {a \o <<o, "-">> \o b : a \in Operands, o \in BinaryOps, b \in Atoms}
    \cup {<<"(", "-">> \o a \o <<o>> \o b \o <<")">> :
            a \in Operands, o \in BinaryOps, b \in Operands}
    \cup {<<"(">> \o a \o <<o>> \o b : a \in Operands, o \in BinaryOps, b \in Operands}
    \cup {a \o <<o>> \o b \o <<")">> : a \in Operands, o \in BinaryOps, b \in Operands}
    \cup {a \o <<o>> \o b \o <<p>> \o c :
            a \in Operands, o \in BinaryOps, b \in Operands, p \in BinaryOps,
            c \in Operands}
    \cup {<<"(">> \o a \o <<o>> \o b \o <<")", p>> \o c :
            a \in Operands, o \in BinaryOps, b \in Operands, p \in BinaryOps,
            c \in Operands}

Init == Entered(ArithExprs, {TinyContext})
Spec == Init /\ [][Next]_vars

\* The long expressions: 1+1+...+1 with 1..MaxTerms terms, 2n - 1 tokens
\* for n terms.
RECURSIVE Sum(_)
Sum(n) == IF n = 1 THEN <<"1">>
          ELSE Sum(n \div 2) \o <<"+">> \o Sum(n - n \div 2)
LongExprs == {Sum(n) : n \in 1..MaxTerms}
InitLong == Entered(LongExprs, {TinyContext})
SpecLong == InitLong /\ [][Next]_vars

\* The deep expressions: n pairs of characters a b, which fill the token
\* array ("((" and "--"), the operator stack ("((", "--" and "1^"), the
\* output queue and the value stack ("1 " and "1^"), and which ask for
\* operands the value stack does not hold ("--" and a trailing "^").
Fill(a, b, n) == [x \in 1..(2 * n) |-> IF x % 2 = 1 THEN a ELSE b]
DeepExprs ==
    {Fill(p[1], p[2], n) :
        p \in {<<"(", "(">>, <<"-", "-">>, <<"1", " ">>, <<"1", "^">>},
        n \in 1..MaxDepth}
InitDeep == Entered(DeepExprs, {TinyContext})
SpecDeep == InitDeep /\ [][Next]_vars

\* The expressions that fail in one phase and would fail otherwise in a
\* later one: "(a o p b" (two operators in a row, and an open parenthesis),
\* "(a o b" (an open parenthesis, and for "/0" a zero divisor), with
\* "a o b" for the calls that pass all phases.
PhaseExprs ==
    {<<"(">> \o a \o <<o, p>> \o b :
        a \in Operands, o \in BinaryOps, p \in BinaryOps \ {"-"},
        b \in Operands}
    \cup {<<"(">> \o a \o <<o>> \o b :
            a \in Operands, o \in BinaryOps, b \in Operands}
    \cup {a \o <<o>> \o b : a \in Operands, o \in BinaryOps, b \in Operands}
InitPhase == Entered(PhaseExprs, {TinyContext})
SpecPhase == InitPhase /\ [][Next]_vars

\* The expressions that leave no value, one value or several values on
\* the value stack: the empty expression, blanks, one operand, two and
\* three operands side by side, and "a o b".
CountExprs ==
    {<<>>, <<" ">>, <<" ", " ">>}
    \cup Atoms
    \cup {a \o <<" ">> \o b : a \in Atoms, b \in Atoms}
    \cup {a \o <<" ">> \o b \o <<" ">> \o c :
            a \in Atoms, b \in Atoms, c \in Atoms}
    \cup {a \o <<o>> \o b : a \in Operands, o \in BinaryOps, b \in Operands}
InitCount == Entered(CountExprs, {TinyContext})
SpecCount == InitCount /\ [][Next]_vars

\* The literal expressions: a bare operand, and the numeric literals
\* "d e x" and "- d e x" with a digit d and an exponent x that is small or
\* beyond the range of a double.
LiteralExprs ==
    Atoms
    \cup {sign \o d \o <<"e">> \o x :
            sign \in {<<>>, <<"-">>}, d \in Operands,
            x \in {Dec(k) : k \in 0..MaxOperand} \cup {Dec(400), Dec(999)}}
InitLiteral == Entered(LiteralExprs, {TinyContext})
SpecLiteral == InitLiteral /\ [][Next]_vars

\* The expressions whose operators and functions leave the range or the
\* domain: f(a) and f(-a) for every function name f, a^(-b) (0^(-b) is
\* infinite), a o b (a/0 is a division by zero), a! and (-a)!.
KindExprs ==
    {function_patterns[f].pattern \o <<"(">> \o sign \o a \o <<")">> :
        f \in DOMAIN function_patterns, sign \in {<<>>, <<"-">>},
        a \in Operands}
    \cup {a \o <<"^", "(", "-">> \o b \o <<")">> :
            a \in Operands, b \in Operands}
    \cup {a \o <<o>> \o b : a \in Operands, o \in BinaryOps, b \in Operands}
    \cup {a \o <<"!">> : a \in Operands}
    \cup {<<"(", "-">> \o a \o <<")", "!">> : a \in Operands}
InitKind == Entered(KindExprs, {TinyContext})
SpecKind == InitKind /\ [][Next]_vars

\* The calculators: calculator_execute is called in STATE_INPUT_NORMAL
\* with an input the keys have made, on a calculator without a result so
\* far or on one that holds the result 5 of an earlier calculation in the
\* memory and the result buffer. The other slots of the memory are zero
\* and sci_mode and fix_mode are false, as calculator_init leaves them.
Calculator(input, ans, has_ans, shown) ==
    [state |-> "STATE_INPUT_NORMAL",
     prev_state |-> "STATE_INPUT_NORMAL",
     mode |-> [deg_mode |-> TRUE, fix_mode |-> FALSE, sci_mode |-> FALSE,
               shift_mode |-> FALSE, alpha_mode |-> FALSE,
               decimal_places |-> 2],
     input_buffer |-> input,
     input_pos |-> Len(input),
     cursor_pos |-> Len(input),
     menu_selection |-> 0,
     result_buffer |-> shown,
     error_buffer |-> "",
     memory |-> [ans |-> ans, x |-> Zero, y |-> Zero, a |-> Zero, b |-> Zero,
                 c |-> Zero, d |-> Zero, m |-> Zero, has_ans |-> has_ans],
     new_number |-> FALSE,
     calculation_done |-> FALSE,
     error_state |-> FALSE,
     eval_context |-> [variables |-> Storage(Zero, Zero, Zero, Zero, Zero,
                                             Zero, Zero, Zero),
                       deg_mode |-> TRUE]]

CalcInputs ==
    {<<>>, <<"0">>}
    \cup Operands
    \cup {a \o <<o>> \o b : a \in Operands \cup {<<"A", "n", "s">>},
                             o \in BinaryOps, b \in Operands}
    \cup {<<"(">> \o a \o <<o>> \o b :
            a \in Operands, o \in BinaryOps, b \in Operands}
    \cup {a \o <<o>> \o b \o <<")">> :
            a \in Operands, o \in BinaryOps, b \in Operands}

Calculators ==
    {Calculator(input, Zero, FALSE, <<>>) : input \in CalcInputs}
    \cup {Calculator(input, Num(5), TRUE, <<"5">>) : input \in CalcInputs}

InitCalc ==
    /\ calc \in Calculators
    /\ keypad = NoKeypad
    /\ main_key = "KEY_NONE"
    /\ pc = "idle"
    /\ expression = <<>>
    /\ context = calc.eval_context
    /\ result = Unwritten
    /\ ret = NoReturn
    /\ pos = 0
    /\ token_count = 0
    /\ expect_number = TRUE
    /\ tokens = <<>>
    /\ i = 0
    /\ operator_stack = <<>>
    /\ rpn_queue = <<>>
    /\ stack = <<>>
    /\ other = NoCall
SpecCalc == InitCalc /\ [][NextCalc]_vars

\* The factorial expressions: n! for 0 <= n <= MaxFact, (-n)! and n.5! for
\* 1 <= n <= MaxOperand.
FactExprs ==
    {Dec(n) \o <<"!">> : n \in 0..MaxFact}
    \cup {<<"(", "-">> \o Dec(n) \o <<")", "!">> : n \in 1..MaxOperand}
    \cup {Dec(n) \o <<".", "5", "!">> : n \in 1..MaxOperand}
InitFact == Entered(FactExprs, {TinyContext})
SpecFact == InitFact /\ [][Next]_vars

\* The variable expressions: each name alone, doubled and added to 2, in
\* the eight contexts whose slots hold 5..12 in the eight rotations (X = 7
\* in one of them).
VariableNames ==
    {<<"A", "n", "s">>, <<"X">>, <<"Y">>, <<"A">>, <<"B">>, <<"C">>, <<"D">>,
     <<"M">>}
VariableExprs ==
    VariableNames
    \cup {v \o <<"*", "2">> : v \in VariableNames}
    \cup {<<"2", "+">> \o v : v \in VariableNames}
SlotContext(k) ==
    LET V(j) == Num(5 + ((j + k) % 8))
    IN  [variables |-> Storage(V(0), V(1), V(2), V(3), V(4), V(5), V(6), V(7)),
         deg_mode |-> FALSE]
SlotContexts == {SlotContext(k) : k \in 0..7}
InitVar == Entered(VariableExprs, SlotContexts)
SpecVar == InitVar /\ [][Next]_vars

\* Calls of evaluate_expression one after the other. The expressions
\* succeed (a+b, a/b), fail in the evaluator (a/0, "a b"), in the
\* converter ("(a") and in the tokenizer ("a*/"); the contexts differ in
\* the slots the operands X, Y and M name.
AgainExprs ==
    {a \o <<o>> \o b : a \in {<<"1">>, <<"X">>}, o \in {"+", "/"},
                       b \in {<<"0">>, <<"2">>}}
    \cup {<<"1", " ", "2">>, <<"(", "1">>, <<"1", "*", "/">>}
AgainContexts == {TinyContext, SlotContext(0)}

\* A further call after the return of a call: the arguments are new, the
\* locals that have an initialiser are initialised (pos, token_count,
\* expect_number, and stack_top = -1 of the operator stack), the storage
\* of the other locals and the caller's result variable hold what the
\* call before left there.
evaluate_expression_again ==
    /\ pc = "done"
    /\ calc = NoCalc
    /\ keypad = NoKeypad
    /\ main_key = "KEY_NONE"
    /\ expression' \in AgainExprs
    /\ context' \in AgainContexts
    /\ ret' = NoReturn
    /\ pc' = "tokenize"
    /\ pos' = 0
    /\ token_count' = 0
    /\ expect_number' = TRUE
    /\ tokens' = <<>>
    /\ operator_stack' = <<>>
    /\ UNCHANGED <<result, i, rpn_queue, stack, other, calc, keypad, main_key>>

NextAgain ==
    \/ Next
    \/ evaluate_expression_again
InitAgain == Entered(AgainExprs, AgainContexts)
SpecAgain == InitAgain /\ [][NextAgain]_vars

\* Two calls of evaluate_expression at a time, on two threads: the call
\* that runs takes the steps of Next, the one that waits keeps its
\* arguments, its locals and its result variable in other. Each call is
\* entered with its own expression and its own context.
Frame ==
    [pc |-> pc, expression |-> expression, context |-> context,
     result |-> result, ret |-> ret, pos |-> pos, token_count |-> token_count,
     expect_number |-> expect_number, tokens |-> tokens, i |-> i,
     operator_stack |-> operator_stack, rpn_queue |-> rpn_queue,
     stack |-> stack]

EnteredFrame(expr, ctx) ==
    [pc |-> "tokenize", expression |-> expr, context |-> ctx,
     result |-> Unwritten, ret |-> NoReturn, pos |-> 0, token_count |-> 0,
     expect_number |-> TRUE, tokens |-> <<>>, i |-> 0,
     operator_stack |-> <<>>, rpn_queue |-> <<>>, stack |-> <<>>]

\* two threads whose calls use one value stack, as if stack and stack_top
\* of evaluate_rpn were static
switch_sharing_stack ==
    /\ other # NoCall
    /\ other' = Frame
    /\ pc' = other.pc
    /\ expression' = other.expression
    /\ context' = other.context
    /\ result' = other.result
    /\ ret' = other.ret
    /\ pos' = other.pos
    /\ token_count' = other.token_count
    /\ expect_number' = other.expect_number
    /\ tokens' = other.tokens
    /\ i' = other.i
    /\ operator_stack' = other.operator_stack
    /\ rpn_queue' = other.rpn_queue
    /\ stack' = stack
    /\ calc' = calc
    /\ UNCHANGED <<keypad, main_key>>

\* the scheduler lets the other thread run: the call that was running
\* waits with all its automatic variables
switch ==
    /\ other # NoCall
    /\ other' = Frame
    /\ pc' = other.pc
    /\ expression' = other.expression
    /\ context' = other.context
    /\ result' = other.result
    /\ ret' = other.ret
    /\ pos' = other.pos
    /\ token_count' = other.token_count
    /\ expect_number' = other.expect_number
    /\ tokens' = other.tokens
    /\ i' = other.i
    /\ operator_stack' = other.operator_stack
    /\ rpn_queue' = other.rpn_queue
    /\ stack' = other.stack
    /\ calc' = calc
    /\ UNCHANGED <<keypad, main_key>>

NextPair ==
    \/ Next
    \/ switch
InitPair ==
    /\ expression \in AgainExprs
    /\ context = TinyContext
    /\ result = Unwritten
    /\ ret = NoReturn
    /\ pc = "tokenize"
    /\ pos = 0
    /\ token_count = 0
    /\ expect_number = TRUE
    /\ tokens = <<>>
    /\ i = 0
    /\ operator_stack = <<>>
    /\ rpn_queue = <<>>
    /\ stack = <<>>
    /\ other \in {EnteredFrame(expr, SlotContext(0)) : expr \in AgainExprs}
    /\ calc = NoCalc
    /\ keypad = NoKeypad
    /\ main_key = "KEY_NONE"
SpecPair == InitPair /\ [][NextPair]_vars

\* The function calls: every name of function_patterns applied to 0 and
\* to 1.
FunctionNames == {function_patterns[x].pattern : x \in DOMAIN function_patterns}
FunctionExprs ==
    {f \o <<"(", a, ")">> : f \in FunctionNames, a \in {"0", "1"}}
InitFunc == Entered(FunctionExprs, {TinyContext})
SpecFunc == InitFunc /\ [][Next]_vars

\* ------------------------------------------------------------ properties
\* What a call gave its caller: the value returned and the caller's
\* variable.
Outcome(err, value) == [ret |-> err, result |-> value]
Returned == Outcome(ret, result)
Success(v) == Outcome(0, v)
Failure(err) == Outcome(err, Unwritten)

\* the shape of an expression of one-character operands: "n" stands for an
\* operand, "o" for a binary operator, every other character for itself
IsOperand(ch) == isdigit(ch) \/ ch \in {"X", "Y", "M"}
Matches(expr, shape) ==
    /\ Len(expr) = Len(shape)
    /\ \A x \in 1..Len(shape) :
          CASE shape[x] = "n" -> IsOperand(expr[x])
            [] shape[x] = "o" -> expr[x] \in BinaryOps
            [] OTHER -> expr[x] = shape[x]

\* the value of a one-character operand in the context of the call
OperandValue(ch) ==
    CASE ch = "X" -> Success(context.variables.x)
      [] ch = "Y" -> Success(context.variables.y)
      [] ch = "M" -> Success(context.variables.m)
      [] OTHER -> Success(Num(CHOOSE x \in 0..9 : Dec(x) = <<ch>>))

\* |v| < 1e-15: v is zero, or |v| * 1e15 is neither 1 nor above 1
Magnitude(v) == [v EXCEPT !.n = Abs(v.n), !.e = v.e + 15]
TinyDivisor(v) ==
    /\ v.k = "rat"
    /\ \/ v.n = 0
       \/ /\ ~GreaterThan(Magnitude(v), 1)
          /\ ~(v.d = 1 /\ Abs(v.n) = 1 /\ v.e = -15)

\* x op y as the arithmetic of the calculator defines it: the operands
\* are evaluated first, a division by a divisor below 1e-15 is the
\* Division-By-Zero error, a result that is not finite the Overflow error
Binary(op, x, y) ==
    IF x.ret # 0 THEN x
    ELSE IF y.ret # 0 THEN y
    ELSE IF op = "/" /\ TinyDivisor(y.result)
    THEN Failure(ERR_DIVISION_BY_ZERO)
    ELSE IF ~isfinite(Arith(op, x.result, y.result)) THEN Failure(ERR_OVERFLOW)
    ELSE Success(Arith(op, x.result, y.result))

\* -x
Negated(x) == IF x.ret # 0 THEN x ELSE Success(Neg(x.result))

\* the precedence levels of the specification: + - below * / below ^
Levels == <<{"+", "-"}, {"*", "/"}, {"^"}>>
Level(op) == CHOOSE l \in DOMAIN Levels : op \in Levels[l]

Done == pc = "done"

\* C1: "a op -b", a unary minus directly after a binary operator, returns
\* a op (-b) for every binary operator op and all operands a and b.
C1_UnaryMinusAfterOperator ==
    (Done /\ Matches(expression, <<"n", "o", "-", "n">>)) =>
        Returned = Binary(expression[2], OperandValue(expression[1]),
                          Negated(OperandValue(expression[4])))

\* C2: an expression of more than MAX_TOKENS tokens returns the
\* Stack-Overflow error; the sum of n ones has 2n - 1 tokens, one for each
\* of its characters.
C2_CapacityOverflowIsError ==
    (Done /\ Len(expression) > MAX_TOKENS) => ret = ERR_STACK_OVERFLOW

\* C3: an operator of higher precedence binds tighter than one of lower
\* precedence on either side: "a o b p c" is a o (b p c) when p is above
\* o and (a o b) p c when o is above p, and "(a o b) p c" is (a o b) p c
\* whatever the operators.
C3_Precedence ==
    /\ (Done /\ Matches(expression, <<"n", "o", "n", "o", "n">>)) =>
          LET a == OperandValue(expression[1])
              o == expression[2]
              b == OperandValue(expression[3])
              p == expression[4]
              c == OperandValue(expression[5])
          IN  /\ Level(p) > Level(o) => Returned = Binary(o, a, Binary(p, b, c))
              /\ Level(o) > Level(p) => Returned = Binary(p, Binary(o, a, b), c)
    /\ (Done /\ Matches(expression, <<"(", "n", "o", "n", ")", "o", "n">>)) =>
          Returned = Binary(expression[6],
                            Binary(expression[3], OperandValue(expression[2]),
                                   OperandValue(expression[4])),
                            OperandValue(expression[7]))

C3_Reached ==
    /\ Done
    /\ expression = <<"2", "+", "3", "*", "3">>
    /\ Returned = Success(Num(11))

\* C4: two operators of one precedence level: "a ^ b ^ c" is a ^ (b ^ c),
\* and with + - * / "a o b p c" is (a o b) p c.
C4_Associativity ==
    (Done /\ Matches(expression, <<"n", "o", "n", "o", "n">>)) =>
        LET a == OperandValue(expression[1])
            o == expression[2]
            b == OperandValue(expression[3])
            p == expression[4]
            c == OperandValue(expression[5])
        IN  Level(o) = Level(p) =>
               Returned = IF o = "^" THEN Binary(o, a, Binary(p, b, c))
                          ELSE Binary(p, Binary(o, a, b), c)

C4_Reached ==
    /\ Done
    /\ expression = <<"2", "^", "3", "^", "2">>
    /\ Returned = Success(Num(512))

\* C5: a unary minus at the start of the expression or right after "(" is
\* applied to the operand after it before any binary operator: "-a o b"
\* and "(-a o b)" are (-a) o b for every binary operator o, ^ included.
C5_LeadingUnaryMinus ==
    /\ (Done /\ Matches(expression, <<"-", "n", "o", "n">>)) =>
          Returned = Binary(expression[3],
                            Negated(OperandValue(expression[2])),
                            OperandValue(expression[4]))
    /\ (Done /\ Matches(expression, <<"(", "-", "n", "o", "n", ")">>)) =>
          Returned = Binary(expression[4],
                            Negated(OperandValue(expression[3])),
                            OperandValue(expression[5]))

C5_Reached ==
    /\ Done
    /\ expression = <<"-", "2", "^", "2">>
    /\ Returned = Success(Num(4))

\* how often the character ch occurs in expr
Count(expr, ch) == Cardinality({x \in DOMAIN expr : expr[x] = ch})

\* C6: an expression with a right parenthesis that has no left one, or
\* with a left parenthesis never closed, returns Mismatched-Parentheses
\* and produces no value.
C6_MismatchedParentheses ==
    (Done /\ Count(expression, "(") # Count(expression, ")")) =>
        Returned = Failure(ERR_MISMATCHED_PARENS)

C6_Reached ==
    /\ Done
    /\ expression = <<"(", "2", "+", "3">>
    /\ Returned = Failure(ERR_MISMATCHED_PARENS)

\* C7: every division the evaluator comes to with a divisor of magnitude
\* below 1e-15 ends the call with the Division-By-Zero error and leaves
\* the caller's variable as it was; no call that returns an error has
\* written it.
C7_DivisionByZero ==
    [][/\ (/\ pc = "evaluate"
           /\ i < Len(rpn_queue)
           /\ rpn_queue[i + 1] = Token("TOKEN_OPERATOR", NoNumber, "/")
           /\ Len(stack) >= 2
           /\ TinyDivisor(stack[Len(stack)]))
          => (pc' = "done" /\ ret' = ERR_DIVISION_BY_ZERO /\ result' = result)
       /\ (pc' = "done" /\ ret' # 0) => result' = Unwritten]_vars

C7_Reached ==
    /\ Done
    /\ expression = <<"3", "/", "X">>
    /\ Returned = Failure(ERR_DIVISION_BY_ZERO)

\* the limbs of lo * (lo + 1) * ... * hi times those of the number before,
\* and of n! = (n - 16)! * (n - 15) * ... * n
RECURSIVE Times(_, _, _)
Times(limbs, lo, hi) ==
    IF lo > hi THEN limbs ELSE MulLimbs(Times(limbs, lo, hi - 1), hi)
RECURSIVE ProductUpTo(_)
ProductUpTo(n) ==
    IF n <= 16 THEN Times(<<1>>, 1, n)
    ELSE The({Times(before, n - 15, n) : before \in {ProductUpTo(n - 16)}})

\* C8: "n!" is the product 1 * 2 * ... * n for every integer 0 <= n <= 170
\* and Domain Error for n > 170; "(-n)!" and "n.5!" are Domain Error.
C8_FactorialDomain ==
    /\ \A n \in 0..MaxFact :
          (Done /\ expression = Dec(n) \o <<"!">>) =>
              Returned = IF n <= 170 THEN Success(OfLimbs(1, ProductUpTo(n)))
                         ELSE Failure(ERR_DOMAIN_ERROR)
    /\ (Done /\ (\/ Matches(expression, <<"(", "-", "n", ")", "!">>)
                 \/ Matches(expression, <<"n", ".", "5", "!">>))) =>
          Returned = Failure(ERR_DOMAIN_ERROR)

C8_Reached ==
    /\ Done
    /\ expression = <<"1", "7", "0", "!">>
    /\ ret = 0
    /\ result.k = "big"

\* the slot of the context that the specification gives a variable name
SlotOf(name) ==
    CASE name = <<"A", "n", "s">> -> context.variables.ans
      [] name = <<"X">> -> context.variables.x
      [] name = <<"Y">> -> context.variables.y
      [] name = <<"A">> -> context.variables.a
      [] name = <<"B">> -> context.variables.b
      [] name = <<"C">> -> context.variables.c
      [] name = <<"D">> -> context.variables.d
      [] name = <<"M">> -> context.variables.m

\* C9: each of the eight variable names evaluates to the value of its own
\* slot of the context: "V" gives the slot, "V*2" its double, "2+V" the
\* slot plus 2.
C9_VariableSubstitution ==
    \A v \in VariableNames :
        /\ (Done /\ expression = v) => Returned = Success(SlotOf(v))
        /\ (Done /\ expression = v \o <<"*", "2">>) =>
              Returned = Success(MulRat(SlotOf(v), Num(2)))
        /\ (Done /\ expression = <<"2", "+">> \o v) =>
              Returned = Success(AddRat(Num(2), SlotOf(v)))

C9_Reached ==
    /\ Done
    /\ expression = <<"X", "*", "2">>
    /\ context.variables.x = Num(7)
    /\ Returned = Success(Num(14))

\* the function a name of the table stands for
FunctionOf(name) ==
    LET x == CHOOSE y \in DOMAIN function_patterns :
                 function_patterns[y].pattern = name
    IN  function_patterns[x].type

\* C10: for every function name f of the table, "f(" is tokenized as the
\* Function token of f followed by a left parenthesis.
C10_LongestMatch ==
    \A f \in FunctionNames :
        (Done /\ SubSeq(expression, 1, Len(f) + 1) = f \o <<"(">>) =>
            /\ Len(tokens) >= 2
            /\ tokens[1] = Token("TOKEN_FUNCTION", NoNumber, FunctionOf(f))
            /\ tokens[2] = Token("TOKEN_LEFT_PAREN", NoNumber, "")

\* C11: no step of evaluate_expression changes the context: the eight
\* variable slots and the angle mode are after the call what they were
\* before it, whether the call succeeds or fails.
C11_ContextUnchanged == [][context' = context]_vars

C11_Reached ==
    /\ Done
    /\ expression = <<"2", "+", "3">>
    /\ Returned = Success(Num(5))
    /\ context = TinyContext

\* the number of values the RPN token t takes from the value stack
Arity(t) ==
    CASE t.type = "TOKEN_OPERATOR" -> 2
      [] t.type \in {"TOKEN_UNARY_MINUS", "TOKEN_FUNCTION"} -> 1
      [] OTHER -> 0

\* the array a[MAX_TOKENS] holds the entries written so far
Fits(a) == Len(a) <= MAX_TOKENS

\* C12: the token array (end marker included), the operator stack, the
\* output queue and the value stack never hold more than MAX_TOKENS
\* entries, the token and the RPN token read by a loop iteration were
\* written before, an entry is only added to a buffer that has room, and
\* an RPN token that needs more values than the value stack holds ends
\* the call with Syntax Error without touching the stack.
C12_BuffersInBounds ==
    /\ [](/\ Fits(tokens) /\ Fits(operator_stack)
          /\ Fits(rpn_queue) /\ Fits(stack)
          /\ token_count <= MAX_TOKENS - 1
          /\ pc = "convert" => token_count < Len(tokens)
          /\ pc = "convert" /\ i < token_count => i + 1 \in DOMAIN tokens
          /\ pc = "evaluate" /\ i < Len(rpn_queue) => i + 1 \in DOMAIN rpn_queue)
    /\ [][/\ Len(tokens') > Len(tokens) => Len(tokens) < MAX_TOKENS
          /\ Len(operator_stack') > Len(operator_stack)
                 => Len(operator_stack) < MAX_TOKENS
          /\ Len(rpn_queue') > Len(rpn_queue) => Len(rpn_queue) < MAX_TOKENS
          /\ Len(stack') > Len(stack) => Len(stack) < MAX_TOKENS
          /\ (/\ pc = "evaluate"
              /\ i < Len(rpn_queue)
              /\ Len(stack) < Arity(rpn_queue[i + 1]))
                 => (pc' = "done" /\ ret' = ERR_SYNTAX_ERROR /\ stack' = stack)
         ]_vars

C12_Reached ==
    /\ Done
    /\ expression = Fill("1", " ", MAX_TOKENS)
    /\ Len(tokens) = MAX_TOKENS
    /\ tokens[MAX_TOKENS].type = "TOKEN_END"
    /\ Len(rpn_queue) = MAX_TOKENS - 1
    /\ Len(stack) = MAX_TOKENS - 1
    /\ ret = ERR_SYNTAX_ERROR

\* the phase a position of the call belongs to
Phase(at) ==
    CASE at \in {"tokenize", "tokenize_end"} -> 1
      [] at = "convert" -> 2
      [] at = "evaluate" -> 3
      [] at = "done" -> 4

\* C13: the phases run in the order tokenize, convert, evaluate and the
\* first error ends the call: a step stays in its phase, enters the next
\* one or returns, nothing runs after the return, a call that fails in the
\* tokenizer has run no step of the converter or the evaluator, a call that
\* fails in the converter no step of the evaluator; "(a o p b" returns
\* Syntax Error and "(a o b" Mismatched-Parentheses, whatever a later
\* phase would have found.
C13_PhaseOrder ==
    /\ [][/\ pc # "done"
          /\ Phase(pc') \in {Phase(pc), Phase(pc) + 1, 4}
          /\ ret' # NoReturn <=> pc' = "done"
          /\ (Phase(pc) = 1 /\ pc' = "done") =>
                 /\ ret' = ERR_SYNTAX_ERROR
                 /\ i' = 0
                 /\ operator_stack' = <<>>
                 /\ rpn_queue' = <<>>
                 /\ stack' = <<>>
                 /\ result' = Unwritten
          /\ (Phase(pc) = 2 /\ pc' = "done") =>
                 /\ ret' \in {ERR_MISMATCHED_PARENS, ERR_STACK_OVERFLOW}
                 /\ stack' = <<>>
                 /\ result' = Unwritten
         ]_vars
    /\ [](Done /\ Matches(expression, <<"(", "n", "o", "o", "n">>)
            => Returned = Failure(ERR_SYNTAX_ERROR))
    /\ [](Done /\ Matches(expression, <<"(", "n", "o", "n">>)
            => Returned = Failure(ERR_MISMATCHED_PARENS))

C13_Reached ==
    /\ Done
    /\ expression = <<"(", "1", "/", "0">>
    /\ Returned = Failure(ERR_MISMATCHED_PARENS)
    /\ stack = <<>>

\* C14: evaluate_rpn returns success only when exactly one value is on the
\* value stack after the last RPN token, and that value is the result;
\* with no value or with several values it returns Syntax Error and leaves
\* the result as it was. The empty expression, blanks, and two or three
\* operands side by side return Syntax Error.
C14_ExactlyOneValue ==
    /\ [][/\ (pc = "evaluate" /\ ret' = 0) =>
                 /\ i = Len(rpn_queue)
                 /\ Len(stack) = 1
                 /\ result' = stack[1]
          /\ (pc = "evaluate" /\ i >= Len(rpn_queue) /\ Len(stack) # 1) =>
                 /\ pc' = "done"
                 /\ ret' = ERR_SYNTAX_ERROR
                 /\ result' = result
         ]_vars
    /\ [](Done /\ (\/ expression \in {<<>>, <<" ">>, <<" ", " ">>}
                   \/ Matches(expression, <<"n", " ", "n">>)
                   \/ Matches(expression, <<"n", " ", "n", " ", "n">>))
            => Returned = Failure(ERR_SYNTAX_ERROR))

C14_Reached ==
    /\ Done
    /\ expression = <<"1", " ", "2">>
    /\ stack = <<Num(1), Num(2)>>
    /\ Returned = Failure(ERR_SYNTAX_ERROR)

\* C15: whenever evaluate_expression returns success, the result is a
\* finite number, neither an infinity nor NaN.
C15_SuccessIsFinite ==
    (Done /\ ret = 0) => result.k \notin {"inf", "nan", "unwritten"}

\* an infinity or NaN
NonFinite(v) == v.k \in {"inf", "nan"}

\* the RPN token the evaluator is about to process, and what its operator
\* or its function makes of the values on top of the stack
EvaluatedToken == rpn_queue[i + 1]
Evaluates(type, arity) ==
    /\ pc = "evaluate"
    /\ i < Len(rpn_queue)
    /\ EvaluatedToken.type = type
    /\ Len(stack) >= arity
OperatorResult ==
    Arith(EvaluatedToken.sym, stack[Len(stack) - 1], stack[Len(stack)])
FunctionResult ==
    apply_function(EvaluatedToken.sym, stack[Len(stack)], context.deg_mode)

\* C16: Overflow is returned exactly by the evaluation of a binary
\* operator whose result is an infinity or NaN, Domain Error exactly by the
\* evaluation of a function whose result is an infinity or NaN; no other
\* step returns either of them. sin^-1(2), ln(0) and (-1)! are Domain
\* Errors, 0^(-1) is an Overflow.
C16_DomainAndOverflowDistinct ==
    /\ [][/\ ret' = ERR_OVERFLOW =>
                 (Evaluates("TOKEN_OPERATOR", 2) /\ NonFinite(OperatorResult))
          /\ ret' = ERR_DOMAIN_ERROR =>
                 (Evaluates("TOKEN_FUNCTION", 1) /\ NonFinite(FunctionResult))
          /\ (/\ Evaluates("TOKEN_OPERATOR", 2)
              /\ ~(EvaluatedToken.sym = "/" /\ TinyDivisor(stack[Len(stack)]))
              /\ NonFinite(OperatorResult)) => ret' = ERR_OVERFLOW
          /\ (Evaluates("TOKEN_FUNCTION", 1) /\ NonFinite(FunctionResult))
                 => ret' = ERR_DOMAIN_ERROR
         ]_vars
    /\ [](Done =>
            /\ expression \in {<<"s", "i", "n", "SUPMINUS", "SUP1", "(", "2", ")">>,
                                <<"l", "n", "(", "0", ")">>,
                                <<"(", "-", "1", ")", "!">>}
                  => Returned = Failure(ERR_DOMAIN_ERROR)
            /\ expression = <<"0", "^", "(", "-", "1", ")">>
                  => Returned = Failure(ERR_OVERFLOW))

C16_Reached ==
    /\ Done
    /\ expression = <<"0", "^", "(", "-", "1", ")">>
    /\ stack = <<Zero, Num(-1)>>
    /\ ret = ERR_OVERFLOW

\* C17: after a failed execution the error buffer holds one of the four
\* labels Syntax Error, Math Error, Domain Error, Overflow.
C17_ErrorLabels ==
    (pc = "returned" /\ calc.error_state) =>
        calc.error_buffer \in {"Syntax Error", "Math Error", "Domain Error",
                               "Overflow"}

\* C18: calculator_execute writes the memory only on success. While the
\* evaluation runs and when it fails, the memory slots, has_ans and the
\* result buffer stay as they are, and a failure leaves the state
\* STATE_SHOW_ERROR; a success stores the result in memory.ans, sets
\* has_ans, changes no other slot and leaves the state STATE_SHOW_RESULT.
\* After the failing input "1/0" the calculator still holds the memory and
\* the result buffer it started with; after "2+3" it holds 5.
C18_MemoryWrittenOnSuccess ==
    /\ [][/\ (pc # "done" \/ ret # 0) =>
                 /\ calc'.memory = calc.memory
                 /\ calc'.result_buffer = calc.result_buffer
          /\ (pc = "done" /\ ret # 0) =>
                 /\ calc'.state = "STATE_SHOW_ERROR"
                 /\ calc'.error_state
          /\ (pc = "done" /\ ret = 0) =>
                 /\ calc'.memory = [calc.memory EXCEPT !.ans = result,
                                                       !.has_ans = TRUE]
                 /\ calc'.state = "STATE_SHOW_RESULT"
         ]_vars
    /\ [](pc = "returned" /\ calc.input_buffer = <<"1", "/", "0">> =>
            /\ calc.state = "STATE_SHOW_ERROR"
            /\ \/ calc.memory = Calculator(<<>>, Zero, FALSE, <<>>).memory
                  /\ calc.result_buffer = <<>>
               \/ calc.memory = Calculator(<<>>, Num(5), TRUE, <<"5">>).memory
                  /\ calc.result_buffer = <<"5">>)
    /\ [](pc = "returned" /\ calc.input_buffer = <<"2", "+", "3">> =>
            /\ calc.state = "STATE_SHOW_RESULT"
            /\ calc.memory.ans = Num(5)
            /\ calc.memory.has_ans
            /\ calc.result_buffer = <<"5">>)

C18_Reached ==
    /\ pc = "returned"
    /\ calc.input_buffer = <<"1", "/", "0">>
    /\ ret = ERR_DIVISION_BY_ZERO
    /\ calc.state = "STATE_SHOW_ERROR"
    /\ calc.memory.ans = Num(5)
    /\ calc.result_buffer = <<"5">>

\* evaluate_expression as a function of the expression and the context:
\* the tokens of the expression from pos on, appended to tokens,
RECURSIVE Tokenized(_, _, _, _)
Tokenized(expr, at, expect, sofar) ==
    IF ~(at < Len(expr) /\ Len(sofar) < MAX_TOKENS - 1)
    THEN [err |-> 0, tokens |-> sofar]
    ELSE The({IF r.err < 0 THEN [err |-> r.err, tokens |-> sofar]
              ELSE IF r.brk THEN [err |-> 0, tokens |-> sofar]
              ELSE Tokenized(expr, r.pos, r.expect, Append(sofar, r.token)) :
              r \in {tokenize_step(expr, at, expect)}})

\* their postfix form,
RECURSIVE Converted(_, _, _, _)
Converted(toks, k, ops, out) ==
    IF k > Len(toks) THEN shunting_drain(ops, out)
    ELSE The({IF r.err < 0 THEN r ELSE Converted(toks, k + 1, r.stack, r.out) :
              r \in {shunting_step(toks[k], ops, out)}})

\* and the value stack after the postfix form
RECURSIVE Evaluated(_, _, _, _)
Evaluated(rpn, k, values, ctx) ==
    IF k > Len(rpn) THEN EvalResult(0, values)
    ELSE The({IF r.err < 0 THEN r ELSE Evaluated(rpn, k + 1, r.stack, ctx) :
              r \in {evaluate_step(rpn[k], values, ctx)}})

Evaluation(expr, ctx) ==
    LET t == Tokenized(expr, 0, TRUE, <<>>)
        c == Converted(t.tokens, 1, <<>>, <<>>)
        e == Evaluated(c.out, 1, <<>>, ctx)
    IN  IF t.err < 0 THEN Failure(t.err)
        ELSE IF c.err < 0 THEN Failure(c.err)
        ELSE IF e.err < 0 THEN Failure(e.err)
        ELSE IF Len(e.stack) # 1 THEN Failure(ERR_SYNTAX_ERROR)
        ELSE Success(e.stack[1])

\* C19: the outcome of a call of evaluate_expression is a function of its
\* expression and its context alone: whatever calls came before, the
\* error code returned is the one the function gives, and on success so
\* is the result.
C19_NoStateBetweenCalls ==
    Done => /\ ret = Evaluation(expression, context).ret
            /\ ret = 0 => result = Evaluation(expression, context).result

\* a call has failed in the tokenizer after a call that left its queue,
\* its stack and its result behind
C19_Reached ==
    /\ Done
    /\ expression = <<"1", "*", "/">>
    /\ ret = ERR_SYNTAX_ERROR
    /\ rpn_queue # <<>>
    /\ stack = <<Num(8)>>
    /\ result = Num(8)

\* C20: two calls whose steps are interleaved return what each returns
\* alone: when a call has returned, running or waiting, its error code is
\* the one the function Evaluation gives for its expression and its
\* context, and on success so is its result; and a step of the running
\* call changes nothing of the waiting one.
C20_InterleavedCalls ==
    /\ [](\A call \in {Frame, other} :
            call.pc = "done" =>
               /\ call.ret = Evaluation(call.expression, call.context).ret
               /\ call.ret = 0 =>
                     call.result
                        = Evaluation(call.expression, call.context).result)
    /\ [][other' \in {other, Frame}]_vars

C20_Reached ==
    /\ Done
    /\ expression = <<"1", "+", "2">>
    /\ Returned = Success(Num(3))
    /\ other.pc = "evaluate"
    /\ other.expression = <<"X", "/", "2">>
    /\ other.stack = <<Num(6), Num(2)>>

\* The short expressions: every string of up to MaxPieces pieces, a piece
\* being the digit 0, a point, a space, an operator, a parenthesis, the
\* factorial sign, the function name abs, or a character of no meaning.
\* The calls run under weak fairness: a call that can take a step takes it.
MaxPieces == 3
Pieces ==
    {<<"0">>, <<".">>, <<" ">>, <<"+">>, <<"-">>, <<"/">>, <<"(">>,
     <<")">>, <<"!">>, <<"a", "b", "s">>, <<"#">>}
RECURSIVE Strings(_, _)
Strings(pieces, n) ==
    IF n = 0 THEN {<<>>}
    ELSE UNION {{e, e \o p} : e \in Strings(pieces, n - 1), p \in pieces}
ShortExprs == Strings(Pieces, MaxPieces)
InitShort == Entered(ShortExprs, {TinyContext})
SpecShort == InitShort /\ [][Next]_vars /\ WF_vars(Next)

\* what one step of a loop does to the loop's own variables: an iteration
\* of the tokenizer that stays in the loop has stored one token and moved
\* pos forward; an iteration of the converter or of the evaluator that
\* stays in the loop has moved i to the next token, the converter having
\* popped no more entries than its stack held
LoopStep ==
    /\ pc = "tokenize" /\ pc' = "tokenize" =>
          /\ pos < Len(expression)
          /\ pos' > pos
          /\ pos' <= Len(expression)
          /\ token_count' = token_count + 1
    /\ pc = "convert" /\ pc' = "convert" =>
          /\ i < token_count
          /\ i' = i + 1
          /\ Len(operator_stack') <= Len(operator_stack) + 1
          /\ Len(rpn_queue') + Len(operator_stack')
                <= Len(rpn_queue) + Len(operator_stack) + 1
    /\ pc = "evaluate" /\ pc' = "evaluate" =>
          /\ i < Len(rpn_queue)
          /\ i' = i + 1
          /\ Len(stack') <= Len(stack) + 1

\* C21: every call of evaluate_expression terminates: it returns in the
\* end, a call that has not returned can always take a step, an iteration
\* of the tokenizer loop consumes at least one character unless it returns
\* an error or leaves the loop, and the converter and the evaluator handle
\* each token once, popping no more entries than the stack holds.
C21_Terminates ==
    /\ <>Done
    /\ [](~Done => ENABLED Next)
    /\ [][LoopStep]_vars

\* a call has returned a value after all three loops have run: " 0!" has
\* given 1
C21_Reached ==
    /\ Done
    /\ expression = <<" ", "0", "!">>
    /\ Returned = Success(Num(1))

\* The angle calls: every function name of the table applied to a
\* quarter turn in degrees, to pi, and to the numbers where the inverse
\* functions give a multiple of pi / 4, and the factorial of each; in
\* degrees and in radians.  Beside them stand the calls of apply_function
\* alone, with every function code, the codes included that no name
\* reaches.
AngleArgs ==
    {<<"0">>, <<"1">>, <<"-", "1">>, <<"2">>, <<"9", "0">>, <<"-", "9", "0">>,
     <<"1", "8", "0">>, <<"2", "7", "0">>, <<"3", "6", "0">>, <<"p", "i">>,
     <<"0", ".", "5">>}
AngleExprs ==
    {f \o <<"(">> \o a \o <<")">> : f \in FunctionNames, a \in AngleArgs}
    \cup {a \o <<"!">> : a \in AngleArgs}
AngleContexts == {[TinyContext EXCEPT !.deg_mode = m] : m \in BOOLEAN}
FunctionCodes ==
    {function_patterns[x].type : x \in DOMAIN function_patterns}
    \cup {"FUNC_FACTORIAL"}
AngleValues ==
    {Zero, Num(1), Num(-1), Num(2), Num(90), Num(-90), Num(180), Num(270),
     Num(360), Num(45), M_PI, PiTimes(1, 2), Norm(1, 2, 0), Inf(1), NaN}

\* evaluate_rpn has a function token at hand and its argument on the
\* stack
Applying(funcs, args, contexts) ==
    /\ expression = <<>>
    /\ context \in contexts
    /\ result = Unwritten
    /\ ret = NoReturn
    /\ pc = "apply"
    /\ pos = 0
    /\ token_count = 0
    /\ expect_number = TRUE
    /\ tokens = <<>>
    /\ i = 0
    /\ operator_stack = <<>>
    /\ rpn_queue \in {<<Token("TOKEN_FUNCTION", NoNumber, f)>> : f \in funcs}
    /\ stack \in {<<v>> : v \in args}
    /\ other = NoCall
    /\ calc = NoCalc
    /\ keypad = NoKeypad
    /\ main_key = "KEY_NONE"

\* the call of apply_function in evaluate_rpn
apply_function_call ==
    /\ pc = "apply"
    /\ \E r \in {apply_function(rpn_queue[1].sym, stack[1], context.deg_mode)} :
          /\ r # OOR
          /\ result' = r
    /\ pc' = "applied"
    /\ UNCHANGED <<expression, context, ret, pos, token_count, expect_number,
                   tokens, i, operator_stack, rpn_queue, stack, other, calc, keypad, main_key>>

NextAngle == Next \/ apply_function_call
InitAngle ==
    \/ Entered(AngleExprs, AngleContexts)
    \/ Applying(FunctionCodes, AngleValues, AngleContexts)
SpecAngle == InitAngle /\ [][NextAngle]_vars

\* what the angle mode asks of a function: in degrees the argument of sin,
\* cos and tan is taken times pi / 180 and the result of asin, acos and
\* atan times 180 / pi; everything else is the function of the library
InAngleMode(func, arg, deg_mode) ==
    IF deg_mode /\ func \in {"FUNC_SIN", "FUNC_COS", "FUNC_TAN"}
    THEN apply_function_in_radians(func, DegreesToRadians(arg), FALSE)
    ELSE IF deg_mode /\ func \in {"FUNC_ASIN", "FUNC_ACOS", "FUNC_ATAN"}
    THEN RadiansToDegrees(apply_function_in_radians(func, arg, FALSE))
    ELSE apply_function_in_radians(func, arg, FALSE)

\* what evaluate_rpn makes of the value of a function
Applied(v) == IF isfinite(v) THEN Success(v) ELSE Failure(ERR_DOMAIN_ERROR)

\* C22: the angle mode affects exactly the trigonometric functions: in
\* degrees sin, cos and tan get their argument times pi / 180 ("sin(90)"
\* gives 1) and asin, acos and atan return their result times 180 / pi; in
\* radians nothing is converted; every other function gives the same in
\* both modes.  This holds of apply_function for every function code, and
\* of the call "f(a)" for every name f that is read as its function.
C22_AngleMode ==
    /\ pc = "applied" =>
          result = InAngleMode(rpn_queue[1].sym, stack[1], context.deg_mode)
    /\ \A f \in FunctionNames, a \in AngleArgs :
          (/\ Done
           /\ expression = f \o <<"(">> \o a \o <<")">>
           /\ Len(tokens) > 0
           /\ tokens[1].sym = FunctionOf(f)) =>
             Returned = Applied(InAngleMode(FunctionOf(f),
                                            Evaluation(a, context).result,
                                            context.deg_mode))

\* "sin(90)" has given 1 in degrees
C22_Reached ==
    /\ Done
    /\ expression = <<"s", "i", "n", "(", "9", "0", ")">>
    /\ context.deg_mode
    /\ Returned = Success(Num(1))

\* The sign expressions: every string of up to MaxPieces pieces, a piece
\* being a number, a constant, a variable, a space, a parenthesis, the
\* factorial sign, a binary operator or a function name; and "2+*3" and
\* "(X+2)*pi".
SignPieces ==
    {<<"2">>, <<"p", "i">>, <<"X">>, <<" ">>, <<"(">>, <<")">>, <<"!">>,
     <<"+">>, <<"-">>, <<"*">>, <<"/">>, <<"^">>, <<"l", "n">>}
SignExprs ==
    Strings(SignPieces, MaxPieces)
    \cup {<<"2", "+", "*", "3">>, <<"(", "X", "+", "2", ")", "*", "p", "i">>}
InitSign == Entered(SignExprs, {TinyContext})
SpecSign == InitSign /\ [][Next]_vars

\* the character the tokenizer looks at in its next iteration
NextChar == CharAt(expression, skip_whitespace(expression, pos))

\* the tokenizer stands in operand position: at the start, after '(',
\* after a binary operator, after a unary minus, after a function name
OperandPosition ==
    \/ token_count = 0
    \/ /\ token_count > 0
       /\ \/ tokens[token_count].type
                \in {"TOKEN_LEFT_PAREN", "TOKEN_OPERATOR", "TOKEN_UNARY_MINUS"}
          \/ /\ tokens[token_count].type = "TOKEN_FUNCTION"
             /\ tokens[token_count].sym # "FUNC_FACTORIAL"

\* C23: in operand position (at the start, after '(', after a binary
\* operator, after a unary minus, after a function name) a ')', a '!' or
\* one of '+', '*', '/', '^' makes the tokenizer return Syntax Error, and
\* nothing goes to the output queue or the result: "()", "*2", "2+*3" and
\* "!" are Syntax Errors.
C23_OperandExpected ==
    /\ [][(/\ pc = "tokenize"
           /\ tokenize_expression_continues
           /\ OperandPosition
           /\ NextChar \in {")", "!", "+", "*", "/", "^"})
          => /\ pc' = "done"
             /\ ret' = ERR_SYNTAX_ERROR
             /\ tokens' = tokens
             /\ rpn_queue' = <<>>
             /\ result' = Unwritten]_vars
    /\ [](Done /\ expression \in {<<"(", ")">>, <<"*", "2">>,
                                  <<"2", "+", "*", "3">>, <<"!">>}
             => Returned = Failure(ERR_SYNTAX_ERROR))

\* "2+*3" has been refused at the '*' behind the '+'
C23_Reached ==
    /\ Done
    /\ expression = <<"2", "+", "*", "3">>
    /\ pos = 2
    /\ token_count = 2
    /\ Returned = Failure(ERR_SYNTAX_ERROR)

\* C24: the flag expect_number is true at the start and after '(', a
\* binary operator, a unary minus and a function name, and false after a
\* number, a constant, a variable, ')' and '!'; and a '-' becomes a
\* UnaryMinus token exactly when the flag is true where it stands, a
\* binary Operator token otherwise.
C24_ExpectFlag ==
    /\ [](expect_number <=> OperandPosition)
    /\ [](token_count > 0 /\ ~expect_number =>
             \/ tokens[token_count].type
                   \in {"TOKEN_NUMBER", "TOKEN_CONSTANT", "TOKEN_VARIABLE",
                        "TOKEN_RIGHT_PAREN"}
             \/ tokens[token_count]
                   = Token("TOKEN_FUNCTION", NoNumber, "FUNC_FACTORIAL"))
    /\ [][(pc = "tokenize" /\ tokenize_expression_continues /\ NextChar = "-")
          => tokens' = Append(tokens,
                              IF expect_number
                              THEN Token("TOKEN_UNARY_MINUS", NoNumber, "")
                              ELSE Token("TOKEN_OPERATOR", NoNumber, "-"))]_vars

\* "2--" has been tokenized: the first '-' is the binary operator, the
\* second the unary minus
C24_Reached ==
    /\ pc = "convert"
    /\ expression = <<"2", "-", "-">>
    /\ SubSeq(tokens, 1, 3) = <<Token("TOKEN_NUMBER", Num(2), ""),
                                Token("TOKEN_OPERATOR", NoNumber, "-"),
                                Token("TOKEN_UNARY_MINUS", NoNumber, "")>>
    /\ expect_number

\* The calls with something behind them: "f(E) op G" for every function
\* name f, E an operand, a negated operand or two operands with a binary
\* operator, op a binary operator, and G an operand or a group.
GroupExprs ==
    {<<"1">>, <<"2">>, <<"-", "1">>}
    \cup {<<a, o, b>> : a \in {"1", "2"}, o \in BinaryOps, b \in {"1", "2"}}
AfterExprs == {<<"3">>, <<"(", "2", "+", "3", ")">>}
CallExprs ==
    {f \o <<"(">> \o e \o <<")", op>> \o g :
        f \in FunctionNames, e \in GroupExprs, op \in BinaryOps,
        g \in AfterExprs}
InitCall == Entered(CallExprs, {TinyContext})
SpecCall == InitCall /\ [][Next]_vars

\* the postfix form of an expression standing alone
RPN(expr) ==
    Converted(Tokenized(expr, 0, TRUE, <<>>).tokens, 1, <<>>, <<>>).out

\* C25: the function of a group "f(E)" goes to the output right behind
\* the postfix form of E and before everything that follows the ')': the
\* postfix form of "f(E) op G" is that of E, then f, then that of G, then
\* op; and no left parenthesis is ever in the output.
C25_FunctionAfterGroup ==
    /\ (pc = "evaluate" /\ i = 0) =>
          \A f \in FunctionNames, e \in GroupExprs, op \in BinaryOps,
             g \in AfterExprs :
             (/\ expression = f \o <<"(">> \o e \o <<")", op>> \o g
              /\ tokens[1].sym = FunctionOf(f)) =>
                rpn_queue
                   = RPN(e)
                        \o <<Token("TOKEN_FUNCTION", NoNumber, FunctionOf(f))>>
                        \o RPN(g)
                        \o <<Token("TOKEN_OPERATOR", NoNumber, op)>>
    /\ \A k \in DOMAIN rpn_queue : rpn_queue[k].type # "TOKEN_LEFT_PAREN"

\* "sqrt(1+2)*(2+3)" has been converted to 1 2 + sqrt 2 3 + *
C25_Reached ==
    /\ pc = "evaluate"
    /\ expression = <<"s", "q", "r", "t", "(", "1", "+", "2", ")", "*",
                      "(", "2", "+", "3", ")">>
    /\ [k \in DOMAIN rpn_queue |->
           IF rpn_queue[k].type = "TOKEN_NUMBER" THEN "n" ELSE rpn_queue[k].sym]
          = <<"n", "n", "+", "FUNC_SQRT", "n", "n", "+", "*">>

\* The factorial expressions with neighbours: a factorial on the right
\* and on the left of each binary operator, on both sides, of a group, of
\* a factorial, of a function application and of the constant pi.
PostfixExprs ==
    {<<a, o, b, "!">> : a \in {"1", "2", "3"}, o \in BinaryOps,
                        b \in {"0", "2", "3", "X"}}
    \cup {<<a, "!", o, b>> : a \in {"0", "2", "3", "X"}, o \in BinaryOps,
                             b \in {"1", "2", "3"}}
    \cup {<<a, "!", o, b, "!">> : a \in {"2", "3"}, o \in BinaryOps,
                                  b \in {"2", "3"}}
    \cup {<<"(", a, o, b, ")", "!">> : a \in {"1", "2", "3"}, o \in BinaryOps,
                                       b \in {"0", "1", "2"}}
    \cup {<<a, "!", "!">> : a \in {"0", "2", "3"}}
    \cup {<<a, o, "a", "b", "s", "(", b, ")", "!">> :
            a \in {"1", "2"}, o \in BinaryOps, b \in {"2", "3"}}
    \cup {<<a, o, "p", "i", "!">> : a \in {"1", "2"}, o \in BinaryOps}
InitPostfix == Entered(PostfixExprs, {TinyContext})
SpecPostfix == InitPostfix /\ [][Next]_vars

\* x! as the calculator defines it: the product 1 * 2 * ... * n for a
\* whole number 0 <= n <= 170, the Domain error for every other value
Factorial(x) ==
    IF x.ret # 0 THEN x
    ELSE IF x.result.k = "rat" /\ x.result.d = 1 /\ x.result.n >= 0
            /\ x.result.e \in 0..2 /\ x.result.n * Pow10(x.result.e) <= 170
    THEN Success(OfLimbs(1, ProductUpTo(x.result.n * Pow10(x.result.e))))
    ELSE Failure(ERR_DOMAIN_ERROR)

\* C26: a postfix '!' applies to the whole operand before it and binds
\* tighter than the binary operators on both sides: "a o b!" is
\* a o (b!), "a! o b" is (a!) o b, "a! o b!" is (a!) o (b!), "(a o b)!" is
\* the factorial of a o b, "a!!" is (a!)!, "a o abs(b)!" is a o (abs(b)!)
\* and "a o pi!" is the Domain error of pi!.
C26_PostfixFactorial ==
    Done =>
       LET v(k) == OperandValue(expression[k])
           o == expression[2]
       IN  /\ Matches(expression, <<"n", "o", "n", "!">>) =>
                 Returned = Binary(o, v(1), Factorial(v(3)))
           /\ Matches(expression, <<"n", "!", "o", "n">>) =>
                 Returned = Binary(expression[3], Factorial(v(1)), v(4))
           /\ Matches(expression, <<"n", "!", "o", "n", "!">>) =>
                 Returned = Binary(expression[3], Factorial(v(1)),
                                   Factorial(v(4)))
           /\ Matches(expression, <<"(", "n", "o", "n", ")", "!">>) =>
                 Returned = Factorial(Binary(expression[3], v(2), v(4)))
           /\ Matches(expression, <<"n", "!", "!">>) =>
                 Returned = Factorial(Factorial(v(1)))
           /\ Matches(expression,
                      <<"n", "o", "a", "b", "s", "(", "n", ")", "!">>) =>
                 Returned = Binary(o, v(1), Factorial(v(7)))
           /\ Matches(expression, <<"n", "o", "p", "i", "!">>) =>
                 Returned = Failure(ERR_DOMAIN_ERROR)

\* "2^3!" has given 2^6 = 64
C26_Reached ==
    /\ Done
    /\ expression = <<"2", "^", "3", "!">>
    /\ Returned = Success(Num(64))

\* C27: an operand that is missing is a Syntax Error: when the evaluator
\* comes to a binary operator with fewer than two values on the stack, or
\* to a unary minus or a function with none, the call returns Syntax Error
\* at that token, the stack is not read or written and no result is
\* stored; "2+" is such a call.
C27_OperandUnderflow ==
    /\ [][(/\ pc = "evaluate"
           /\ i < Len(rpn_queue)
           /\ Len(stack) < Arity(rpn_queue[i + 1]))
          => /\ pc' = "done"
             /\ ret' = ERR_SYNTAX_ERROR
             /\ stack' = stack
             /\ i' = i
             /\ result' = Unwritten]_vars
    /\ [](Done /\ expression \in {<<"2", "+">>, <<"-">>, <<"l", "n">>}
             => Returned = Failure(ERR_SYNTAX_ERROR))

\* "2+" has been refused at the '+', with the 2 alone on the stack
C27_Reached ==
    /\ Done
    /\ expression = <<"2", "+">>
    /\ rpn_queue[i + 1] = Token("TOKEN_OPERATOR", NoNumber, "+")
    /\ stack = <<Num(2)>>
    /\ Returned = Failure(ERR_SYNTAX_ERROR)

\* The juxtaposed operands: two operands (a number, pi, X, a group, a
\* function application) side by side or with a space between them, and
\* nothing or one binary operator behind them; two numbers side by side,
\* which are one number, are left out.
JuxtaOperands ==
    {<<"2">>, <<"3">>, <<"p", "i">>, <<"X">>, <<"(", "1", ")">>,
     <<"(", "3", "+", "4", ")">>, <<"s", "i", "n", "(", "0", ")">>}
JuxtaExprs ==
    {a \o s \o b \o t :
        a \in JuxtaOperands, s \in {<<>>, <<" ">>}, b \in JuxtaOperands,
        t \in {<<>>} \cup {<<o>> : o \in BinaryOps}}
    \ {a \o b \o t :
        a \in {<<"2">>, <<"3">>}, b \in {<<"2">>, <<"3">>},
        t \in {<<>>} \cup {<<o>> : o \in BinaryOps}}
InitJuxta == Entered(JuxtaExprs, {TinyContext})
SpecJuxta == InitJuxta /\ [][Next]_vars

\* C28: there is no implicit multiplication: an expression with two
\* operands side by side and no binary operator between them ("2(3+4)",
\* "2 3", "2pi", "(1)(2)", "2sin(0)") never returns success; it returns an
\* error and no result is written.
C28_NoImplicitMultiplication ==
    (Done /\ expression \in JuxtaExprs) => (ret < 0 /\ result = Unwritten)

\* how often the token t occurs in the sequence s
Occurrences(s, t) == Cardinality({k \in DOMAIN s : s[k] = t})

\* the tokens of the types in the sequence s, in their order
OfTypes(s, types) ==
    LET Wanted(t) == t.type \in types
    IN  SelectSeq(s, Wanted)

\* C29: when parse_expression_to_rpn has returned success, its output
\* holds no left parenthesis, no right parenthesis and no End token, holds
\* every other token of the input exactly once (its count is the token
\* count less the number of parentheses), and lists the numbers, constants
\* and variables in the order of the input.
C29_OutputOfConverter ==
    (pc = "evaluate" /\ i = 0) =>
       LET input == SubSeq(tokens, 1, token_count)
           parens == {"TOKEN_LEFT_PAREN", "TOKEN_RIGHT_PAREN"}
           operands == {"TOKEN_NUMBER", "TOKEN_CONSTANT", "TOKEN_VARIABLE"}
       IN  /\ \A k \in DOMAIN rpn_queue :
                 rpn_queue[k].type \notin parens \cup {"TOKEN_END"}
           /\ \A t \in Range(input) \cup Range(rpn_queue) :
                 t.type \notin parens =>
                    Occurrences(rpn_queue, t) = Occurrences(input, t)
           /\ Len(rpn_queue) = token_count - Len(OfTypes(input, parens))
           /\ OfTypes(rpn_queue, operands) = OfTypes(input, operands)

\* "(X+2)*pi" has been converted: seven tokens, two of them parentheses,
\* and the output X 2 + pi *
C29_Reached ==
    /\ pc = "evaluate"
    /\ i = 0
    /\ expression = <<"(", "X", "+", "2", ")", "*", "p", "i">>
    /\ token_count = 7
    /\ rpn_queue = <<Token("TOKEN_VARIABLE", NoNumber, "VAR_X"),
                     Token("TOKEN_NUMBER", Num(2), ""),
                     Token("TOKEN_OPERATOR", NoNumber, "+"),
                     Token("TOKEN_CONSTANT", NoNumber, "CONST_PI"),
                     Token("TOKEN_OPERATOR", NoNumber, "*")>>

\* ------------------------------------------------------------ key handler
\* The keys of key_code_t are their names. A character buffer is the
\* sequence of its characters up to the NUL; positions count from 0 as in
\* the code.
INPUT_BUFFER_SIZE == 128

\* buffer[at] = ch for a position in front of the NUL
SetChar(buffer, at, ch) ==
    IF at < Len(buffer) THEN [buffer EXCEPT ![at + 1] = ch] ELSE buffer

\* text stored at a position followed by a NUL: strcpy(&buffer[at], text),
\* and buffer[at] = ch; buffer[at + 1] = '\0'. Behind the NUL of a buffer
\* the store leaves the string as it is.
StoreAt(buffer, at, text) ==
    IF at <= Len(buffer) THEN SubSeq(buffer, 1, at) \o text ELSE buffer

\* the calculator after calculator_init: everything zero but the state,
\* the angle mode, the decimal places, the input "0" and new_number
calculator_init ==
    [Calculator(<<"0">>, Zero, FALSE, <<>>) EXCEPT !.new_number = TRUE]

\* a calculator_clear that leaves the error where it is
calculator_clear_keeping_error(c) ==
    [c EXCEPT !.input_buffer = <<"0">>,
              !.input_pos = 1,
              !.cursor_pos = 1,
              !.new_number = TRUE,
              !.calculation_done = FALSE,
              !.state = "STATE_INPUT_NORMAL",
              !.result_buffer = <<>>]

calculator_clear(c) ==
    [c EXCEPT !.input_buffer = <<"0">>,
              !.input_pos = 1,
              !.cursor_pos = 1,
              !.new_number = TRUE,
              !.calculation_done = FALSE,
              !.error_state = FALSE,
              !.state = "STATE_INPUT_NORMAL",
              !.result_buffer = <<>>,
              !.error_buffer = ""]

\* an append_char that keeps the leading zero
append_char_behind_zero(c, ch) ==
    LET c1 == IF c.new_number
              THEN [calculator_clear(c) EXCEPT !.new_number = FALSE]
              ELSE c
    IN  IF c1.input_pos < INPUT_BUFFER_SIZE - 1
        THEN [c1 EXCEPT !.input_buffer = StoreAt(@, c1.input_pos, <<ch>>),
                        !.input_pos = @ + 1,
                        !.cursor_pos = c1.input_pos + 1]
        ELSE c1

append_char(c, ch) ==
    LET c1 == IF c.new_number
              THEN [calculator_clear(c) EXCEPT !.new_number = FALSE]
              ELSE c
    IN  IF c1.input_pos = 1 /\ CharAt(c1.input_buffer, 0) = "0" /\ ch # "."
        THEN [c1 EXCEPT !.input_buffer = SetChar(@, 0, ch),
                        !.cursor_pos = 1]
        ELSE IF c1.input_pos < INPUT_BUFFER_SIZE - 1
        THEN [c1 EXCEPT !.input_buffer = StoreAt(@, c1.input_pos, <<ch>>),
                        !.input_pos = @ + 1,
                        !.cursor_pos = c1.input_pos + 1]
        ELSE c1

append_string(c, str) ==
    LET c1 == IF c.new_number /\ str # <<"A", "n", "s">>
              THEN [calculator_clear(c) EXCEPT !.new_number = FALSE]
              ELSE c
        len == Len(str)
    IN  IF c1.input_pos + len < INPUT_BUFFER_SIZE - 1
        THEN [c1 EXCEPT !.input_buffer = StoreAt(@, c1.input_pos, str),
                        !.input_pos = @ + len,
                        !.cursor_pos = c1.input_pos + len]
        ELSE c1

\* an append_operator that always replaces the last character
append_operator_replacing(c, op) ==
    {[c EXCEPT !.input_buffer = SetChar(@, c.input_pos - 1, op),
               !.cursor_pos = c.input_pos,
               !.state = "STATE_INPUT_NORMAL",
               !.new_number = FALSE]}

\* append_operator: the calculators it can leave, one for each text
\* snprintf can make of the last answer
append_operator(c, op) ==
    IF c.state = "STATE_SHOW_RESULT"
    THEN {[c EXCEPT !.input_buffer = text,
                    !.input_pos = Len(text),
                    !.cursor_pos = Len(text),
                    !.state = "STATE_INPUT_NORMAL",
                    !.new_number = FALSE] :
            text \in {SubSeq(t \o <<op>>, 1,
                             IF Len(t) + 1 < INPUT_BUFFER_SIZE - 1
                             THEN Len(t) + 1 ELSE INPUT_BUFFER_SIZE - 1) :
                        t \in snprintf(INPUT_BUFFER_SIZE,
                                       [conv |-> "g", precision |-> 10],
                                       c.memory.ans)}}
    ELSE IF c.input_pos = 0 /\ op # "-" THEN {c}
    ELSE IF /\ c.input_pos > 0
            /\ CharAt(c.input_buffer, c.input_pos - 1) \in {"+", "-", "*", "/"}
    THEN {[c EXCEPT !.input_buffer = SetChar(@, c.input_pos - 1, op),
                    !.cursor_pos = c.input_pos]}
    ELSE IF c.input_pos < INPUT_BUFFER_SIZE - 1
    THEN {[c EXCEPT !.input_buffer = StoreAt(@, c.input_pos, <<op>>),
                    !.input_pos = @ + 1,
                    !.cursor_pos = c.input_pos + 1,
                    !.new_number = FALSE]}
    ELSE {[c EXCEPT !.new_number = FALSE]}

backspace(c) ==
    IF c.state \in {"STATE_SHOW_RESULT", "STATE_SHOW_ERROR"}
    THEN calculator_clear(c)
    ELSE IF c.input_pos > 1
    THEN [c EXCEPT !.input_buffer = StoreAt(@, c.input_pos - 1, <<>>),
                   !.input_pos = @ - 1,
                   !.cursor_pos = c.input_pos - 1]
    ELSE IF c.input_pos = 1
    THEN [c EXCEPT !.input_buffer = <<"0">>,
                   !.cursor_pos = 1]
    ELSE c

\* calculator_execute with the call of evaluate_expression run to its end:
\* the calculators it can leave, one for each text snprintf can make of
\* the result. A result the model of a double does not follow has none.
calculator_execute(c) ==
    IF c.input_buffer \in {<<>>, <<"0">>} THEN {c}
    ELSE LET ctx == [variables |-> [ans |-> c.memory.ans,
                                    x |-> c.memory.x,
                                    y |-> c.memory.y,
                                    a |-> c.memory.a,
                                    b |-> c.memory.b,
                                    c |-> c.memory.c,
                                    d |-> c.memory.d,
                                    m |-> c.memory.m],
                     deg_mode |-> c.mode.deg_mode]
             c1 == [c EXCEPT !.eval_context = ctx]
         IN  UNION {IF o.ret # 0
                    THEN {calculator_set_error(c1, error_msg(o.ret))}
                    ELSE IF o.result.k \notin {"rat", "big", "sym", "inf", "nan"}
                    THEN {}
                    ELSE {[c1 EXCEPT !.memory.ans = o.result,
                                     !.memory.has_ans = TRUE,
                                     !.result_buffer = text,
                                     !.state = "STATE_SHOW_RESULT",
                                     !.calculation_done = TRUE,
                                     !.new_number = TRUE] :
                            text \in snprintf(64, result_format(c.mode),
                                              o.result)} :
                    o \in {Evaluation(c.input_buffer, ctx)}}

\* KEY_0 .. KEY_9 in the order of key_code_t
DigitKeys ==
    <<"KEY_0", "KEY_1", "KEY_2", "KEY_3", "KEY_4", "KEY_5", "KEY_6", "KEY_7",
      "KEY_8", "KEY_9">>
\* '0' + (key - KEY_0)
DigitOf(key) == DigitChars[CHOOSE k \in 1..10 : DigitKeys[k] = key]

OperatorKeys ==
    [KEY_PLUS |-> "+", KEY_MINUS |-> "-", KEY_MULTIPLY |-> "*",
     KEY_DIVIDE |-> "/"]

\* the names the function keys append without and with shift_mode
FunctionKeys ==
    [KEY_SIN |-> [plain |-> <<"s", "i", "n", "(">>,
                  shifted |-> <<"a", "s", "i", "n", "(">>],
     KEY_COS |-> [plain |-> <<"c", "o", "s", "(">>,
                  shifted |-> <<"a", "c", "o", "s", "(">>],
     KEY_TAN |-> [plain |-> <<"t", "a", "n", "(">>,
                  shifted |-> <<"a", "t", "a", "n", "(">>],
     KEY_LOG |-> [plain |-> <<"l", "o", "g", "(">>,
                  shifted |-> <<"e", "x", "p", "(">>],
     KEY_LN |-> [plain |-> <<"l", "n", "(">>,
                 shifted |-> <<"e", "x", "p", "(">>],
     KEY_EXP |-> [plain |-> <<"*", "1", "0", "^">>,
                  \* the five bytes of the literal in the source
                  shifted |-> <<"0xC3", "0x8F", "0xE2", "0x82", "0xAC">>]]

\* handle_normal_input: the calculators the key can leave
handle_normal_input(c, key) ==
    CASE key \in Range(DigitKeys) -> {append_char(c, DigitOf(key))}
      [] key = "KEY_DOT" ->
            IF "." \notin Range(c.input_buffer) THEN {append_char(c, ".")}
            ELSE {c}
      [] key \in DOMAIN OperatorKeys -> append_operator(c, OperatorKeys[key])
      [] key \in DOMAIN FunctionKeys ->
            {append_string(c, IF c.mode.shift_mode
                              THEN FunctionKeys[key].shifted
                              ELSE FunctionKeys[key].plain)}
      [] key = "KEY_SQRT" ->
            IF c.mode.shift_mode
            THEN {append_char(append_char(c, "^"), "2")}
            ELSE {append_string(c, <<"s", "q", "r", "t", "(">>)}
      [] key = "KEY_PAREN_LEFT" -> {append_char(c, "(")}
      [] key = "KEY_PAREN_RIGHT" -> {append_char(c, ")")}
      [] key = "KEY_ANS" -> {append_string(c, <<"A", "n", "s">>)}
      [] key = "KEY_X_POW_Y" -> {append_char(c, "^")}
      [] key = "KEY_EQUAL" -> calculator_execute(c)
      [] key \in {"KEY_CLEAR", "KEY_ON_AC"} -> {calculator_clear(c)}
      [] key = "KEY_BACKSPACE" -> {backspace(c)}
      [] OTHER -> {c}

\* the keys that end the error display and are handled as input
ErrorInputKeys ==
    Range(DigitKeys)
    \cup {"KEY_DOT", "KEY_PLUS", "KEY_MINUS", "KEY_MULTIPLY", "KEY_DIVIDE",
          "KEY_PAREN_LEFT", "KEY_PAREN_RIGHT", "KEY_SIN", "KEY_COS",
          "KEY_TAN", "KEY_LOG", "KEY_LN", "KEY_SQRT"}

\* the switch of calculator_update_state on the state: each case prepares
\* the calculator (clears it, or continues with the last answer as the
\* input) and then hands the key on to handle_normal_input or not
state_switch(c, key) ==
    LET ModeKeys == {"KEY_SHIFT", "KEY_ALPHA", "KEY_MODE", "KEY_NONE"}
        cleared == [calculator_clear(c) EXCEPT !.state = "STATE_INPUT_NORMAL"]
        continued == {[c EXCEPT !.input_buffer = text,
                                !.input_pos = Len(text),
                                !.cursor_pos = Len(text),
                                !.state = "STATE_INPUT_NORMAL",
                                !.new_number = FALSE] :
                        text \in snprintf(INPUT_BUFFER_SIZE,
                                          [conv |-> "g", precision |-> 10],
                                          c.memory.ans)}
        prepared ==
            CASE c.state = "STATE_INPUT_NORMAL" -> {c}
              [] c.state = "STATE_SHOW_RESULT" ->
                    IF key \in {"KEY_CLEAR", "KEY_ON_AC"} THEN {cleared}
                    ELSE IF key \in Range(DigitKeys) \cup {"KEY_DOT"}
                    THEN {cleared}
                    ELSE IF key \in DOMAIN OperatorKeys THEN continued
                    ELSE IF key = "KEY_EQUAL" THEN {c}
                    ELSE IF key \notin ModeKeys THEN {cleared}
                    ELSE {c}
              [] c.state = "STATE_SHOW_ERROR" ->
                    IF key \notin ModeKeys THEN {cleared} ELSE {c}
              [] c.state = "STATE_MENU_MODE" ->
                    IF key \in {"KEY_CLEAR", "KEY_ON_AC"}
                    THEN {[c EXCEPT !.state = c.prev_state]}
                    ELSE {c}
              [] OTHER -> {c}
        handled ==
            CASE c.state = "STATE_INPUT_NORMAL" -> TRUE
              [] c.state = "STATE_SHOW_RESULT" ->
                    key \notin {"KEY_CLEAR", "KEY_ON_AC", "KEY_EQUAL"}
                                \cup ModeKeys
              [] c.state = "STATE_SHOW_ERROR" -> key \in ErrorInputKeys
              [] OTHER -> FALSE
    IN  IF handled THEN UNION {handle_normal_input(d, key) : d \in prepared}
        ELSE prepared

\* calculator_update_state: the calculators the key can leave. SHIFT,
\* ALPHA and MODE return before the switch, KEY_EQUAL in STATE_SHOW_RESULT
\* returns inside it, and every other key ends with shift_mode and
\* alpha_mode cleared.
calculator_update_state(c, key) ==
    IF key = "KEY_SHIFT"
    THEN {[c EXCEPT !.mode.shift_mode = ~c.mode.shift_mode]}
    ELSE IF key = "KEY_ALPHA"
    THEN {[c EXCEPT !.mode.alpha_mode = ~c.mode.alpha_mode]}
    ELSE IF key = "KEY_MODE"
    THEN {[c EXCEPT !.prev_state = c.state,
                    !.state = "STATE_MENU_MODE",
                    !.menu_selection = 0]}
    ELSE IF c.state = "STATE_SHOW_RESULT" /\ key = "KEY_EQUAL" THEN {c}
    ELSE {[d EXCEPT !.mode.shift_mode = FALSE, !.mode.alpha_mode = FALSE] :
            d \in state_switch(c, key)}

\* the longest input the keys make in the model (the continuation of a
\* result can be longer), the shortest of the inputs near the capacity
\* of the buffer, which the model follows too, and the largest whole
\* number a chain of calculations leaves as the last answer
MaxInput == 5
MinFull == 124
MaxAnswer == 3

\* one turn of the loop of main: a key from the keypad is handed to
\* calculator_update_state
main_loop(keys) ==
    /\ pc = "idle"
    /\ calc # NoCalc
    /\ \E key \in keys :
          \E c \in calculator_update_state(calc, key) :
             /\ \/ Len(c.input_buffer) <= MaxInput
                \/ Len(c.input_buffer) >= MinFull
                \/ calc.state = "STATE_SHOW_RESULT"
             /\ IsSmallInt(c.memory.ans) =>
                    Abs(IntOf(c.memory.ans)) <= MaxAnswer
             /\ calc' = c
             /\ main_key' = key
    /\ UNCHANGED <<pc, expression, context, result, ret, pos, token_count,
                   expect_number, tokens, i, operator_stack, rpn_queue,
                   stack, other, keypad>>

\* main after calculator_init, before the first key
InitMain ==
    /\ calc = calculator_init
    /\ keypad = NoKeypad
    /\ main_key = "KEY_NONE"
    /\ pc = "idle"
    /\ expression = <<>>
    /\ context = calc.eval_context
    /\ result = Unwritten
    /\ ret = NoReturn
    /\ pos = 0
    /\ token_count = 0
    /\ expect_number = TRUE
    /\ tokens = <<>>
    /\ i = 0
    /\ operator_stack = <<>>
    /\ rpn_queue = <<>>
    /\ stack = <<>>
    /\ other = NoCall

\* The keys around the mode menu: a digit, an operator (the input "1+"
\* is an error, "1+1" has a result), EQUAL, the keys that leave a display,
\* and the keys that return before the switch.
MenuKeys ==
    {"KEY_NONE", "KEY_1", "KEY_PLUS", "KEY_EQUAL", "KEY_CLEAR", "KEY_ON_AC",
     "KEY_BACKSPACE", "KEY_SHIFT", "KEY_MODE"}
NextMenu == main_loop(MenuKeys)
SpecMenu == InitMain /\ [][NextMenu]_vars

\* C30: the mode menu can always be left: whatever keys came before, in
\* STATE_MENU_MODE the keys CLEAR and ON/AC end the menu, so the state
\* calculator_update_state leaves for either of them is not
\* STATE_MENU_MODE.
C30_MenuCanBeLeft ==
    calc.state = "STATE_MENU_MODE" =>
        \A key \in {"KEY_CLEAR", "KEY_ON_AC"} :
            \A c \in calculator_update_state(calc, key) :
                c.state # "STATE_MENU_MODE"

\* C31: a poll that finds no key is a no-op: whatever keys came before,
\* calculator_update_state called with KEY_NONE leaves every field of the
\* calculator as it is, an active shift_mode or alpha_mode included.
C31_NoKeyNoChange ==
    \A c \in calculator_update_state(calc, "KEY_NONE") : c = calc

\* the key codes of key_code_t
KeyCodes ==
    {"KEY_NONE"} \cup Range(DigitKeys)
    \cup {"KEY_PLUS", "KEY_MINUS", "KEY_MULTIPLY", "KEY_DIVIDE", "KEY_EQUAL",
          "KEY_CLEAR", "KEY_DOT", "KEY_BACKSPACE",
          "KEY_SIN", "KEY_COS", "KEY_TAN", "KEY_LOG", "KEY_LN", "KEY_SQRT",
          "KEY_POWER", "KEY_FACTORIAL", "KEY_PI", "KEY_E", "KEY_PAREN_LEFT",
          "KEY_PAREN_RIGHT",
          "KEY_SHIFT", "KEY_ALPHA", "KEY_MODE", "KEY_ON_AC", "KEY_X_POW_Y",
          "KEY_X_POW_MINUS1", "KEY_LOG10", "KEY_EXP", "KEY_PERCENT",
          "KEY_ANS", "KEY_ENG", "KEY_SETUP", "KEY_STAT", "KEY_MATRIX",
          "KEY_VECTOR", "KEY_CMPLX", "KEY_BASE_N", "KEY_EQUATION",
          "KEY_CALC", "KEY_SOLVE", "KEY_INTEGRATE", "KEY_DIFF", "KEY_TABLE",
          "KEY_RESET", "KEY_RAN_HASH", "KEY_DRG", "KEY_HYP", "KEY_STO",
          "KEY_RCL", "KEY_CONST", "KEY_CONV", "KEY_FUNC", "KEY_OPTN"}

\* The keys around an error: a digit, an operator and EQUAL make the
\* errors ("1+" is a Syntax Error) and the results, SHIFT sets the flag,
\* and in STATE_SHOW_ERROR every key of key_code_t can follow; the key
\* sequences end with the first key that is none of the four.
ErrorKeys == {"KEY_1", "KEY_PLUS", "KEY_EQUAL", "KEY_SHIFT"}
NextError ==
    main_loop(IF calc.state = "STATE_SHOW_ERROR" THEN KeyCodes
              ELSE IF main_key \in ErrorKeys \cup {"KEY_NONE"} THEN ErrorKeys
              ELSE {})
SpecError == InitMain /\ [][NextError]_vars

\* C32: in STATE_SHOW_ERROR a key other than SHIFT, ALPHA, MODE and
\* KEY_NONE clears the error: the step that handles it leaves the state
\* STATE_INPUT_NORMAL, error_state false and the error buffer empty. No
\* key handled in STATE_SHOW_ERROR starts an evaluation: the memory and
\* the evaluation context stay as they are and no result is shown.
C32_ErrorCleared ==
    [][calc.state = "STATE_SHOW_ERROR" =>
          /\ main_key' \notin {"KEY_SHIFT", "KEY_ALPHA", "KEY_MODE",
                               "KEY_NONE"} =>
                /\ calc'.state = "STATE_INPUT_NORMAL"
                /\ ~calc'.error_state
                /\ calc'.error_buffer = ""
          /\ calc'.state # "STATE_SHOW_RESULT"
          /\ calc'.memory = calc.memory
          /\ calc'.eval_context = calc.eval_context
          /\ calc'.calculation_done => calc.calculation_done
      ]_vars

\* the error of the input "1+" is shown, and the key EQUAL ends it
C32_Reached ==
    /\ calc.state = "STATE_SHOW_ERROR"
    /\ calc.error_state
    /\ calc.error_buffer = "Syntax Error"
    /\ calc.input_buffer = <<"1", "+">>
    /\ main_key = "KEY_EQUAL"
    /\ calculator_update_state(calc, "KEY_EQUAL") =
          {[calculator_clear(calc) EXCEPT !.mode.shift_mode = FALSE]}

\* The keys around a result: two digits, two operators and EQUAL make
\* the results (1/3 has a long one, 1-3 a negative one), and in
\* STATE_SHOW_RESULT every key of key_code_t can follow; the key
\* sequences end with the key that ends the display of the first result.
ResultKeys == {"KEY_1", "KEY_3", "KEY_MINUS", "KEY_DIVIDE", "KEY_EQUAL"}
NextResult ==
    main_loop(IF calc.state = "STATE_SHOW_RESULT" THEN KeyCodes
              ELSE IF ~calc.memory.has_ans THEN ResultKeys
              ELSE {})
SpecResult == InitMain /\ [][NextResult]_vars

\* C33: operator keys continue with the result: the step that handles
\* +, -, * or / in STATE_SHOW_RESULT leaves the state STATE_INPUT_NORMAL,
\* the input buffer equal to the last answer printed with "%.10g" and
\* directly followed by the character of the operator, new_number false
\* and the memory as it was. After 1/3 the key MINUS leaves the input
\* "0.3333333333-".
C33_OperatorContinues ==
    /\ [][(calc.state = "STATE_SHOW_RESULT"
           /\ main_key' \in DOMAIN OperatorKeys) =>
             /\ calc'.state = "STATE_INPUT_NORMAL"
             /\ calc'.input_buffer \in
                   {text \o <<OperatorKeys[main_key']>> :
                      text \in snprintf(INPUT_BUFFER_SIZE,
                                        [conv |-> "g", precision |-> 10],
                                        calc.memory.ans)}
             /\ calc'.input_pos = Len(calc'.input_buffer)
             /\ ~calc'.new_number
             /\ calc'.memory = calc.memory
         ]_vars
    /\ [][(calc.state = "STATE_SHOW_RESULT"
           /\ calc.input_buffer = <<"1", "/", "3">>
           /\ main_key' = "KEY_MINUS") =>
             calc'.input_buffer = <<"0", ".", "3", "3", "3", "3", "3", "3",
                                    "3", "3", "3", "3", "-">>
         ]_vars

\* MINUS was handled after the result of 1/3
C33_Reached ==
    /\ main_key = "KEY_MINUS"
    /\ calc.state = "STATE_INPUT_NORMAL"
    /\ calc.input_buffer = <<"0", ".", "3", "3", "3", "3", "3", "3", "3", "3",
                             "3", "3", "-">>
    /\ calc.memory.has_ans
    /\ calc.result_buffer = <<"0", ".", "3", "3", "3", "3", "3", "3", "3",
                              "3", "3", "3">>
    /\ ~calc.new_number

\* C34: number keys start a new calculation: the step that handles a
\* digit key in STATE_SHOW_RESULT leaves the state STATE_INPUT_NORMAL, the
\* input buffer equal to that one digit, the result buffer empty and the
\* memory as it was; the key DOT leaves the input buffer "0.".
C34_NumberStartsAgain ==
    [][calc.state = "STATE_SHOW_RESULT" =>
          /\ main_key' \in Range(DigitKeys) =>
                /\ calc'.state = "STATE_INPUT_NORMAL"
                /\ calc'.input_buffer = <<DigitOf(main_key')>>
                /\ calc'.result_buffer = <<>>
                /\ calc'.memory = calc.memory
          /\ main_key' = "KEY_DOT" =>
                /\ calc'.state = "STATE_INPUT_NORMAL"
                /\ calc'.input_buffer = <<"0", ".">>
                /\ calc'.result_buffer = <<>>
                /\ calc'.memory = calc.memory
      ]_vars

\* the digit 7 was handled after the result of 1-3
C34_Reached ==
    /\ main_key = "KEY_7"
    /\ calc.state = "STATE_INPUT_NORMAL"
    /\ calc.input_buffer = <<"7">>
    /\ calc.result_buffer = <<>>
    /\ calc.memory.has_ans
    /\ calc.memory.ans = Num(-2)

\* The inputs near the capacity: the key 1 pressed up to 127 times after
\* calculator_init, the last time perhaps followed by PLUS, and then
\* keys that append one character, two, three, four or five, the key DOT,
\* SHIFT and BACKSPACE.
Ones(n) == [k \in 1..n |-> "1"]
FullInputs ==
    {Ones(n) : n \in MinFull..(INPUT_BUFFER_SIZE - 1)}
    \cup {Ones(n) \o <<"+">> : n \in MinFull..(INPUT_BUFFER_SIZE - 2)}
FullKeys ==
    {"KEY_1", "KEY_DOT", "KEY_PLUS", "KEY_SIN", "KEY_LN", "KEY_SQRT",
     "KEY_ANS", "KEY_X_POW_Y", "KEY_SHIFT", "KEY_BACKSPACE", "KEY_NONE"}
InitFull ==
    /\ calc \in {Calculator(input, Zero, FALSE, <<>>) : input \in FullInputs}
    /\ keypad = NoKeypad
    /\ main_key \in {"KEY_1", "KEY_PLUS"}
    /\ pc = "idle"
    /\ expression = <<>>
    /\ context = calc.eval_context
    /\ result = Unwritten
    /\ ret = NoReturn
    /\ pos = 0
    /\ token_count = 0
    /\ expect_number = TRUE
    /\ tokens = <<>>
    /\ i = 0
    /\ operator_stack = <<>>
    /\ rpn_queue = <<>>
    /\ stack = <<>>
    /\ other = NoCall
NextFull == main_loop(FullKeys)
SpecFull == InitFull /\ [][NextFull]_vars

\* the characters a key stands for in the input, with and without
\* shift_mode
KeyText(key, shift) ==
    CASE key \in Range(DigitKeys) -> <<DigitOf(key)>>
      [] key = "KEY_DOT" -> <<".">>
      [] key \in DOMAIN OperatorKeys -> <<OperatorKeys[key]>>
      [] key \in DOMAIN FunctionKeys ->
            IF shift THEN FunctionKeys[key].shifted
            ELSE FunctionKeys[key].plain
      [] key = "KEY_SQRT" ->
            IF shift THEN <<"^", "2">> ELSE <<"s", "q", "r", "t", "(">>
      [] key = "KEY_PAREN_LEFT" -> <<"(">>
      [] key = "KEY_PAREN_RIGHT" -> <<")">>
      [] key = "KEY_ANS" -> <<"A", "n", "s">>
      [] key = "KEY_X_POW_Y" -> <<"^">>
      [] OTHER -> <<>>

\* C35: after calculator_init and any keys, input_pos is between 1 and
\* 127 and is the length of the input, cursor_pos is input_pos, and the
\* input never has more than the 127 characters the buffer holds; a key
\* whose characters do not fit behind the input leaves the input buffer
\* as it is.
C35_InputBuffer ==
    /\ [](/\ calc.input_pos >= 1
          /\ calc.input_pos <= INPUT_BUFFER_SIZE - 1
          /\ calc.input_pos = Len(calc.input_buffer)
          /\ calc.cursor_pos = calc.input_pos)
    /\ [][(/\ calc.state = "STATE_INPUT_NORMAL"
           /\ Len(calc.input_buffer)
                 + Len(KeyText(main_key', calc.mode.shift_mode))
                 > INPUT_BUFFER_SIZE - 1
           /\ ~(/\ main_key' \in DOMAIN OperatorKeys
                /\ calc.input_buffer[Len(calc.input_buffer)]
                       \in {"+", "-", "*", "/"})) =>
             calc'.input_buffer = calc.input_buffer
         ]_vars

\* The keys around the decimal point: three digits, DOT, an operator and
\* BACKSPACE.
DotKeys ==
    {"KEY_1", "KEY_2", "KEY_5", "KEY_DOT", "KEY_PLUS", "KEY_BACKSPACE"}
NextDot == main_loop(DotKeys)
SpecDot == InitMain /\ [][NextDot]_vars

\* the number being entered: the characters of the input behind its last
\* operator or parenthesis
RECURSIVE CurrentNumber(_)
CurrentNumber(input) ==
    IF input = <<>> \/ input[Len(input)] \in {"+", "-", "*", "/", "^", "(", ")"}
    THEN <<>>
    ELSE Append(CurrentNumber(SubSeq(input, 1, Len(input) - 1)),
                input[Len(input)])

\* C36: the key DOT adds a decimal point exactly when the number being
\* entered has none: handled in STATE_INPUT_NORMAL behind an input that
\* the keys have begun, it appends '.' when the characters behind the
\* last operator hold no '.', as in "1.5+2", and leaves the input as it
\* is when they hold one.
C36_DotPerNumber ==
    [][(/\ calc.state = "STATE_INPUT_NORMAL"
        /\ ~calc.new_number
        /\ main_key' = "KEY_DOT") =>
          calc'.input_buffer =
             IF "." \in Range(CurrentNumber(calc.input_buffer))
             THEN calc.input_buffer
             ELSE calc.input_buffer \o <<".">>
      ]_vars

\* The keys on a fresh display: the six function keys, a digit, the
\* closing parenthesis, EQUAL, CLEAR and SHIFT.
FreshKeys ==
    {"KEY_SIN", "KEY_COS", "KEY_TAN", "KEY_LOG", "KEY_LN", "KEY_SQRT",
     "KEY_0", "KEY_PAREN_RIGHT", "KEY_EQUAL", "KEY_CLEAR", "KEY_SHIFT"}
NextFresh == main_loop(FreshKeys)
SpecFresh == InitMain /\ [][NextFresh]_vars

\* the calculators a sequence of keys can leave of the calculators cs
RECURSIVE Pressed(_, _)
Pressed(cs, keys) ==
    IF keys = <<>> THEN cs
    ELSE Pressed(UNION {calculator_update_state(c, keys[1]) : c \in cs},
                 Tail(keys))

\* C37: a function key starts a clean expression on a fresh display: the
\* step that handles SIN, COS, TAN, LOG, LN or SQRT in STATE_INPUT_NORMAL
\* while new_number is set leaves the input buffer equal to the text of
\* the function, without a "0" in front of it, and the keys SIN 9 0 ) =
\* take the calculator from calculator_init to STATE_SHOW_RESULT.
C37_FunctionOnFreshDisplay ==
    /\ [][(/\ calc.state = "STATE_INPUT_NORMAL"
           /\ calc.new_number
           /\ main_key' \in {"KEY_SIN", "KEY_COS", "KEY_TAN", "KEY_LOG",
                             "KEY_LN", "KEY_SQRT"}) =>
             calc'.input_buffer = KeyText(main_key', calc.mode.shift_mode)
         ]_vars
    /\ [](calc = calculator_init =>
            \A c \in Pressed({calc}, <<"KEY_SIN", "KEY_9", "KEY_0",
                                       "KEY_PAREN_RIGHT", "KEY_EQUAL">>) :
               c.state = "STATE_SHOW_RESULT")

\* The texts of the function keys: what handle_normal_input appends for
\* SIN, COS, TAN, LOG and LN without and with shift_mode, and for SQRT
\* without. The expressions apply each of them to 0 and to 1, at the
\* beginning of the input and behind "1+".
FunctionTexts ==
    {FunctionKeys[k].plain : k \in {"KEY_SIN", "KEY_COS", "KEY_TAN",
                                    "KEY_LOG", "KEY_LN"}}
    \cup {FunctionKeys[k].shifted : k \in {"KEY_SIN", "KEY_COS", "KEY_TAN",
                                           "KEY_LOG", "KEY_LN"}}
    \cup {KeyText("KEY_SQRT", FALSE)}
TextExprs ==
    {before \o text \o <<arg, ")">> :
        before \in {<<>>, <<"1", "+">>}, text \in FunctionTexts,
        arg \in {"0", "1"}}
InitText == Entered(TextExprs, {TinyContext})
SpecText == InitText /\ [][Next]_vars

\* C38: every text a function key appends begins with a name the
\* tokenizer takes for a function: the token made at the position of the
\* text is a TOKEN_FUNCTION, and the evaluation of the text with an
\* argument and a closing parenthesis does not end with Syntax Error.
C38_FunctionTextsKnown ==
    /\ [][(pc = "tokenize"
           /\ \E text \in FunctionTexts :
                 StartsWith(expression, pos, text)) =>
             /\ ret' # ERR_SYNTAX_ERROR
             /\ token_count' = token_count + 1
             /\ tokens'[token_count'].type = "TOKEN_FUNCTION"
         ]_vars
    /\ [](Done => ret # ERR_SYNTAX_ERROR)

\* ---- keypad_handler.c: the key queue between fifo_reader_thread and main

\* K_MSGQ_DEFINE(key_msgq, sizeof(key_code_t), 16, 4): the queue holds at
\* most 16 keys.
key_msgq_max_msgs == 16

\* A put that makes room by giving up the oldest key.
k_msgq_put_over_oldest(q, key) ==
    IF Len(q) < key_msgq_max_msgs THEN Append(q, key)
    ELSE Append(Tail(q), key)

\* k_msgq_put(&key_msgq, &key, K_NO_WAIT): the key goes behind the queued
\* ones; on a full queue the call returns at once and leaves the queue.
k_msgq_put(q, key) ==
    IF Len(q) < key_msgq_max_msgs THEN Append(q, key) ELSE q

\* keypad_get_key: k_msgq_get with K_NO_WAIT takes the oldest key, or
\* fails at once on an empty queue, and then the result is KEY_NONE.
keypad_get_key(q) ==
    IF q # <<>> THEN [key |-> Head(q), key_msgq |-> Tail(q)]
    ELSE [key |-> "KEY_NONE", key_msgq |-> q]

\* The keys the simulator sends: the key map of the web keypad names
\* digits, operators and editing keys, never KEY_NONE. Every key is
\* pressed once, so that a key delivered twice or out of order shows.
MaxPresses == 18
PressedKeys ==
    <<"KEY_1", "KEY_PLUS", "KEY_2", "KEY_EQUAL", "KEY_MULTIPLY", "KEY_3",
      "KEY_MINUS", "KEY_4", "KEY_DIVIDE", "KEY_5", "KEY_DOT", "KEY_6",
      "KEY_BACKSPACE", "KEY_7", "KEY_SHIFT", "KEY_8", "KEY_CLEAR", "KEY_9",
      "KEY_0", "KEY_ALPHA">>
PressStreams ==
    {SubSeq(PressedKeys, 1, MaxPresses),
     [n \in 1..MaxPresses |-> PressedKeys[MaxPresses + 1 - n]]}

\* One turn of the loop of fifo_reader_thread. With the FIFO open, read
\* delivers the next key the simulator wrote, which is put on the queue,
\* or fails for want of data, and the FIFO is closed and opened again;
\* without it, the FIFO is opened. keypad.presses are the keys the
\* simulator has yet to deliver, keypad.put the keys k_msgq_put accepted.
fifo_reader_thread ==
    /\ \/ /\ keypad.fifo_fd >= 0
          /\ keypad.presses # <<>>
          /\ keypad' =
               [keypad EXCEPT
                  !.presses = Tail(@),
                  !.key_msgq = k_msgq_put(@, Head(keypad.presses)),
                  !.put = IF Len(keypad.key_msgq) < key_msgq_max_msgs
                          THEN Append(@, Head(keypad.presses)) ELSE @]
       \/ /\ keypad.fifo_fd >= 0
          /\ \E fd \in {-1, 3} : keypad' = [keypad EXCEPT !.fifo_fd = fd]
       \/ /\ keypad.fifo_fd < 0
          /\ \E fd \in {-1, 3} : keypad' = [keypad EXCEPT !.fifo_fd = fd]
    /\ UNCHANGED <<pc, expression, context, result, ret, pos, token_count,
                   expect_number, tokens, i, operator_stack, rpn_queue,
                   stack, other, calc, main_key>>

\* main, step 1 of the loop: key = keypad_get_key(). keypad.got are the
\* keys k_msgq_get handed over.
main_get_key ==
    /\ keypad.main = "keypad_get_key"
    /\ \E got \in {keypad_get_key(keypad.key_msgq)} :
          /\ main_key' = got.key
          /\ keypad' =
               [keypad EXCEPT
                  !.key_msgq = got.key_msgq,
                  !.got = IF keypad.key_msgq # <<>>
                          THEN Append(@, got.key) ELSE @,
                  !.main = "calculator_update_state"]
    /\ UNCHANGED <<pc, expression, context, result, ret, pos, token_count,
                   expect_number, tokens, i, operator_stack, rpn_queue,
                   stack, other, calc>>

\* main, steps 2 to 4 of the loop: calculator_update_state(&calc, key),
\* the rendering, which changes neither calc nor the queue, and the sleep.
main_update_state ==
    /\ keypad.main = "calculator_update_state"
    /\ \E c \in calculator_update_state(calc, main_key) : calc' = c
    /\ keypad' = [keypad EXCEPT !.main = "keypad_get_key"]
    /\ UNCHANGED <<pc, expression, context, result, ret, pos, token_count,
                   expect_number, tokens, i, operator_stack, rpn_queue,
                   stack, other, main_key>>

\* main after keypad_init and calculator_init: the queue is empty, the
\* FIFO is open or could not be opened, no key has been delivered.
InitKeypad ==
    /\ calc = calculator_init
    /\ \E presses \in PressStreams, fd \in {-1, 3} :
          keypad = [key_msgq |-> <<>>, fifo_fd |-> fd, presses |-> presses,
                    put |-> <<>>, got |-> <<>>, main |-> "keypad_get_key"]
    /\ main_key = "KEY_NONE"
    /\ pc = "idle"
    /\ expression = <<>>
    /\ context = calc.eval_context
    /\ result = Unwritten
    /\ ret = NoReturn
    /\ pos = 0
    /\ token_count = 0
    /\ expect_number = TRUE
    /\ tokens = <<>>
    /\ i = 0
    /\ operator_stack = <<>>
    /\ rpn_queue = <<>>
    /\ stack = <<>>
    /\ other = NoCall
NextKeypad == fifo_reader_thread \/ main_get_key \/ main_update_state
SpecKeypad == InitKeypad /\ [][NextKeypad]_vars

====
